---- MODULE Spec2Model ----
(***************************************************************************)
(* Job orchestration of the YouTube downloader GUI                         *)
(* (src/yt_downloader_22_fixed_origlang.py, class DownloaderApp).          *)
(*                                                                         *)
(* The UI thread runs the button handlers; a queue worker thread           *)
(* runs _run_queue; one-off download threads run                           *)
(* _run_single_download_thread; an update worker runs                      *)
(* _update_yt_dlp_worker.  The threads share self.queue, the QueueItem     *)
(* objects, self.cancel_event, self.queue_running, self._updating and the  *)
(* widget states written by _toggle_controls.                              *)
(*                                                                         *)
(* QueueItem objects live in a heap (items) and self.queue holds           *)
(* references (ids): list.remove / list.index compare QueueItems with the  *)
(* dataclass __eq__ (field by field), the Treeview rows are keyed by       *)
(* str(id(item)).                                                          *)
(*                                                                         *)
(* Spec is the job orchestration, FormatSpec the format resolution,        *)
(* NameSpec the composition of file names (_sanitize_title,                *)
(* _auto_rename_result steps 1 to 4), RenameSpec the renaming of download  *)
(* results in the output folder, ThrottleSpec the throttle of the          *)
(* detailed log.  Each leaves the variables of the others alone.           *)
(***************************************************************************)
EXTENDS Integers, Sequences, FiniteSets, TLC

\* ---------------------------------------------------------------- bounds
\* QueueItem objects created in one behaviour.
MaxJobs == 2
\* One-off download threads alive at the same time.
MaxOneOff == 1
\* URL lines of a .txt file loaded into the queue.
MaxTxtLines == 2
\* Format resolutions done for one preset (a job run again, a retried download).
MaxResolutions == 2

\* ------------------------------------------------------- statuses, values
\* QueueItem.status: the strings of the source, in English.
Queued            == "Queued"             \* 'Ожидает'
Running           == "Running"            \* 'В процессе'
Succeeded         == "Succeeded"          \* 'Готово'
SucceededFallback == "SucceededFallback"  \* 'Готово (mkv)'
Canceled          == "Canceled"           \* 'Отменено'
Failed            == "Failed"             \* 'Ошибка'

Terminal == {Succeeded, SucceededFallback, Canceled, Failed}

None == "None"

\* DownloadPreset, the fields the orchestration reads.
DownloadPreset(h, v, a, l, c, ao) ==
    [height |-> h, vcodec_choice |-> v, acodec_choice |-> a, alang_choice |-> l,
     container_choice |-> c, audio_only |-> ao]

\* The presets the UI is set to when a handler collects them (_collect_preset):
\* a video+audio preset with a forced container, and an audio-only preset.
VideoPreset == DownloadPreset(1080, "Auto", "Auto", "orig", "mp4", FALSE)
AudioPreset == DownloadPreset(1080, "Auto", "Auto", "orig", "Auto", TRUE)
UiPresets == {VideoPreset, AudioPreset}
NoPreset == DownloadPreset(0, "", "", "", "", FALSE)

Urls == {"u1"}

\* The title the engine reports for a URL.
TitleOf(url) == IF url = "u1" THEN "T1" ELSE "T2"

\* QueueItem(url, preset): status 'Ожидает', result_path None, title None.
QueueItem(url, preset) ==
    [url |-> url, preset |-> preset, status |-> Queued, result_path |-> None,
     title |-> None]

\* A heap cell holding no object (never allocated, or garbage collected).
NoItem == [url |-> "", preset |-> NoPreset, status |-> "free", result_path |-> None,
           title |-> None]

Ids == 1..MaxJobs
\* Thread 0 is the queue worker (its _run_single_download frame), 1..MaxOneOff
\* are one-off download threads.
QueueThread == 0
OneOffThreads == 1..MaxOneOff
Threads == {QueueThread} \cup OneOffThreads

\* Time is counted in ticks of a quarter second and progress in quarters of a
\* percentage point: the 0.5 of _append_raw_throttled is 2 of either, and 1.0
\* percentage point is PercentUnit.
MinRawInterval == 2
MinRawPercent == 2
PercentUnit == 4
\* The last tick of the clock, the highest progress reported, the progress
\* events of one download, the downloads of one behaviour (ThrottleSpec).
MaxClock == 5
MaxPercent == 4
MaxEvents == 3
MaxThrottleJobs == 2

\* The threads that rename download results: the queue worker and one one-off
\* download thread.
RenameThreads == {QueueThread, 1}

\* A thread outside _run_single_download.
NoRename == [pc |-> "idle", job |-> 0, title |-> <<>>, attempt |-> "primary",
             reported |-> FALSE, path |-> <<>>, target |-> <<>>]

VARIABLES
    items,          \* heap: id -> QueueItem fields
    allocated,      \* number of QueueItem objects created so far
    queue,          \* self.queue: list of QueueItem references
    queue_tv,       \* Treeview rows, each keyed by the id of its QueueItem
    queue_running,  \* self.queue_running
    cancel_event,   \* self.cancel_event.is_set()
    updating,       \* self._updating (the update worker is alive)
    download_thread,\* self.download_thread: 0 (None or dead) or a one-off thread
    buttons,        \* widget states written by _toggle_controls
    modal,          \* the modal dialog the UI thread is blocked in
    qt,             \* the queue worker: position in _run_queue
    frame,          \* per thread: the _run_single_download activation
    cancel_in_run,  \* history: a cancel request set the flag during this queue run
    ui_preset,      \* the settings widgets of the main window (what _collect_preset reads)
    picked,         \* history: the jobs this queue run made 'В процессе', in order
    preset_obj,     \* per QueueItem: the DownloadPreset object its .preset refers to
    available_audio_languages, \* self.available_audio_languages
    resolved,       \* format resolutions done so far for one preset (FormatSpec)
    sanitized,      \* the last _sanitize_title call: its argument and its result
    named,          \* the last file name composition: its arguments and its result
    ellipsized,     \* the last _ellipsize call: its arguments and its result
    files,          \* the output folder: the files in it, each with the job whose download wrote it
    last_output_path, \* self.last_output_path
    rj,             \* per thread: the download whose result is being renamed
    rename_started, \* number of downloads started so far (RenameSpec)
    results,        \* per download: status, return value, queue_item.result_path
    overlapped,     \* history: two downloads have been running at the same time
    clock,          \* time.time(), in ticks of a quarter second
    last_raw_line_ts,  \* self._last_raw_line_ts, in ticks
    last_raw_percent,  \* self._last_raw_percent, in quarters of a percentage point
    hook,           \* the download the progress hook belongs to: attempt, events so far
    events,         \* history: the progress events of this download and what became of them
    throttle_jobs   \* number of downloads started so far (ThrottleSpec)

\* The variables of the format resolution.
fmt_vars == <<available_audio_languages, resolved>>

\* The variables of the file naming.
name_vars == <<sanitized, named, ellipsized>>

\* The variables of the renaming of download results.
rename_vars == <<files, last_output_path, rj, rename_started, results, overlapped>>

\* The variables of the throttle of the detailed log.
throttle_vars == <<clock, last_raw_line_ts, last_raw_percent, hook, events,
                   throttle_jobs>>

\* The variables outside the job orchestration and the format resolution.
aux_vars == <<name_vars, rename_vars, throttle_vars>>

vars == <<items, allocated, queue, queue_tv, queue_running, cancel_event, updating,
          download_thread, buttons, modal, qt, frame, cancel_in_run, ui_preset,
          picked, preset_obj, fmt_vars, aux_vars>>

\* ------------------------------------------------------------ UI widgets
\* _toggle_controls(downloading, queue_mode): TRUE is state "normal", FALSE is
\* state "disabled".
ToggleControls(downloading, queue_mode) ==
    [download    |-> ~downloading,
     add_queue   |-> ~downloading,
     load_txt    |-> ~downloading,
     update_yt   |-> ~downloading,
     start_queue |-> ~(downloading /\ queue_mode),
     clear_queue |-> ~(downloading /\ queue_mode),
     cancel      |-> downloading]

\* The widgets as _build_ui creates them: every button normal, Cancel disabled.
InitialControls ==
    [download |-> TRUE, add_queue |-> TRUE, load_txt |-> TRUE, update_yt |-> TRUE,
     start_queue |-> TRUE, clear_queue |-> TRUE, cancel |-> FALSE]

\* No dialog is open: the UI thread dispatches clicks.
NoModal == [kind |-> "none", item |-> 0]
\* A messagebox.showwarning / showinfo the handler returns after.
MessageBox(kind) == [kind |-> kind, item |-> 0]
\* The Toplevel of _edit_queue_item(item), which holds the grab (grab_set).
EditDialog(id) == [kind |-> "edit", item |-> id]

\* ------------------------------------------------- _run_single_download
\* No activation: the thread is not inside _run_single_download.
NoFrame ==
    [pc |-> "none", preset |-> NoPreset, item |-> 0, container |-> "",
     continuedl |-> FALSE, fallbacks |-> 0, ret |-> "none"]

\* _norm_container_choice: 'Авто' (here "Auto") is "auto", anything else is
\* lower-cased; the container names of the UI are lower case already.
NormContainerChoice(s) == IF s = "Auto" THEN "auto" ELSE s

\* Entry of _run_single_download(url, preset, queue_item): the audio-only
\* branch or the probe of the video+audio branch.  item is 0 for queue_item None.
\* container is the merge_output_format of the options of the running attempt
\* ("auto": none requested), continuedl their "continuedl" entry, which both
\* run_opts (audio-only) and base_opts set to True.
CallRunSingleDownload(preset, item) ==
    [NoFrame EXCEPT !.pc = IF preset.audio_only THEN "audio" ELSE "probe",
                    !.preset = preset, !.item = item, !.continuedl = TRUE,
                    !.container = IF preset.audio_only THEN "auto"
                                  ELSE NormContainerChoice(preset.container_choice)]

\* threading.Thread.is_alive() of a one-off thread and of the queue worker.
OneOffAlive(t) == frame[t].pc # "none"
DownloadThreadAlive == download_thread # 0 /\ OneOffAlive(download_thread)
QueueThreadAlive == qt.pc # "dead"

\* The queue worker outside _run_queue.
NoQueueThread == [pc |-> "dead", snap |-> <<>>, k |-> 0]

\* --------------------------------------------------------------- the heap
SeqIds(q) == {q[k] : k \in 1..Len(q)}

\* _queue_update_status: item.status = status (and the row's status cell).
QueueUpdateStatus(h, id, status) == [h EXCEPT ![id].status = status]

\* list.remove(item): removes the first element that compares equal to item
\* (dataclass __eq__: all fields); ValueError when there is none.
ListRemove(q, h, id) ==
    LET hits == {k \in 1..Len(q) : h[q[k]] = h[id]}
    IN  IF hits = {} THEN q
        ELSE LET k == CHOOSE m \in hits : \A n \in hits : m <= n
             IN  SubSeq(q, 1, k - 1) \o SubSeq(q, k + 1, Len(q))

\* Treeview.delete(str(id(item))): the row keyed by this object's id.
TvDelete(tv, id) == SelectSeq(tv, LAMBDA r : r # id)

\* _queue_item_by_iid: the first item of the queue whose id is iid, or 0 (None).
QueueItemByIid(q, iid) == IF iid \in SeqIds(q) THEN iid ELSE 0

\* Objects that no reference which is read again reaches are collected.
Collect(h, live) == [i \in Ids |-> IF i \in live THEN h[i] ELSE NoItem]

\* A DownloadPreset object is named by the first QueueItem whose .preset
\* refers to it (0: no object): SameObject renames the objects of po that way.
SameObject(po) ==
    [i \in Ids |-> IF po[i] = 0 THEN 0
                   ELSE CHOOSE j \in Ids : /\ po[j] = po[i]
                                           /\ \A m \in Ids : po[m] = po[i] => j <= m]

\* item.preset = a DownloadPreset object made just now, which nothing else
\* refers to.
NewPresetObject(po, id) == SameObject([po EXCEPT ![id] = MaxJobs + id])

\* The preset references of the QueueItems that are still alive in heap h.
LiveObjects(po, h) == SameObject([i \in Ids |-> IF h[i] = NoItem THEN 0 ELSE po[i]])

Init ==
    /\ items = [i \in Ids |-> NoItem]
    /\ allocated = 0
    /\ queue = <<>>
    /\ queue_tv = <<>>
    /\ queue_running = FALSE
    /\ cancel_event = FALSE
    /\ updating = FALSE
    /\ download_thread = 0
    /\ buttons = InitialControls
    /\ modal = NoModal
    /\ qt = NoQueueThread
    /\ frame = [t \in Threads |-> NoFrame]
    /\ cancel_in_run = FALSE
    /\ ui_preset = VideoPreset
    /\ picked = <<>>
    /\ preset_obj = [i \in Ids |-> 0]
    /\ available_audio_languages = {"orig", "ru", "en"}
    /\ resolved = <<>>
    /\ sanitized = [done |-> FALSE, title |-> <<>>, out |-> <<>>]
    /\ named = [done |-> FALSE]
    /\ ellipsized = [done |-> FALSE, s |-> <<>>, maxlen |-> 0, out |-> <<>>]
    /\ files = {}
    /\ last_output_path = <<>>
    /\ rj = [t \in RenameThreads |-> NoRename]
    /\ rename_started = 0
    /\ results = <<>>
    /\ overlapped = FALSE
    /\ clock = MinRawInterval
    /\ last_raw_line_ts = 0
    /\ last_raw_percent = -PercentUnit
    /\ hook = [pc |-> "idle", n |-> 0]
    /\ events = <<>>
    /\ throttle_jobs = 0

\* ------------------------------------------------------- button handlers
\* A click reaches a handler only when no modal dialog holds the grab.
UiIdle == modal.kind = "none"

\* A message box changes nothing but modal, so a worker step and the closing of
\* the box commute: the box is closed before the next worker step is taken.
NoMessageBox == modal.kind \in {"none", "edit"}

\* The user changes the settings widgets of the main window (quality, codecs,
\* container, "audio only"): the Tk variables _collect_preset reads.  The
\* widgets are not touched by _toggle_controls.
OnUiSettingsChanged ==
    /\ UiIdle
    /\ \E preset \in UiPresets \ {ui_preset} : ui_preset' = preset
    /\ UNCHANGED <<items, allocated, queue, queue_tv, queue_running, cancel_event,
                   updating, download_thread, buttons, modal, qt, frame,
                   cancel_in_run, picked, preset_obj, fmt_vars, aux_vars>>

\* OnDownloadClicked without cancel_event.clear().
OnDownloadClicked_KeepsFlag ==
    /\ UiIdle /\ buttons.download
    /\ \E t \in OneOffThreads :
        /\ ~OneOffAlive(t)
        /\ \A u \in OneOffThreads : u < t => OneOffAlive(u)
        /\ buttons' = ToggleControls(TRUE, FALSE)
        /\ download_thread' = t
        /\ frame' = [frame EXCEPT ![t] = CallRunSingleDownload(ui_preset, 0)]
    /\ UNCHANGED <<items, allocated, queue, queue_tv, queue_running, cancel_event,
                   updating, modal, qt, cancel_in_run,
                   ui_preset, picked, preset_obj, fmt_vars, aux_vars>>

\* _on_download_clicked, with a URL in the entry (or the clipboard) and an
\* output folder set; without them the handler warns and returns.
OnDownloadClicked ==
    /\ UiIdle /\ buttons.download
    /\ \E t \in OneOffThreads :
        /\ ~OneOffAlive(t)
        /\ \A u \in OneOffThreads : u < t => OneOffAlive(u)
        /\ cancel_event' = FALSE
        /\ buttons' = ToggleControls(TRUE, FALSE)
        /\ download_thread' = t
        /\ frame' = [frame EXCEPT ![t] = CallRunSingleDownload(ui_preset, 0)]
    /\ UNCHANGED <<items, allocated, queue, queue_tv, queue_running,
                   updating, modal, qt, cancel_in_run,
                   ui_preset, picked, preset_obj, fmt_vars, aux_vars>>

\* _on_cancel_clicked.
OnCancelClicked ==
    /\ UiIdle /\ buttons.cancel
    /\ DownloadThreadAlive \/ QueueThreadAlive
    /\ cancel_event' = TRUE
    /\ cancel_in_run' = (cancel_in_run \/ queue_running)
    /\ UNCHANGED <<items, allocated, queue, queue_tv, queue_running, updating,
                   download_thread, buttons, modal, qt, frame,
                   ui_preset, picked, preset_obj, fmt_vars, aux_vars>>

\* _on_add_to_queue, with a URL in the clipboard or the entry and an output
\* folder set; without them the handler warns and returns.
OnAddToQueue ==
    /\ UiIdle /\ buttons.add_queue
    /\ allocated < MaxJobs
    /\ \E url \in Urls :
        items' = [items EXCEPT ![allocated + 1] = QueueItem(url, ui_preset)]
    /\ allocated' = allocated + 1
    /\ queue' = Append(queue, allocated + 1)
    /\ queue_tv' = Append(queue_tv, allocated + 1)
    /\ preset_obj' = [preset_obj EXCEPT ![allocated + 1] = allocated + 1]
    /\ UNCHANGED <<queue_running, cancel_event, updating, download_thread,
                   buttons, modal, qt, frame, cancel_in_run,
                   ui_preset, picked, fmt_vars, aux_vars>>

\* The URL lines of a .txt file: 1..MaxTxtLines non-empty, non-comment lines.
TxtFiles == UNION {[1..n -> Urls] : n \in 1..MaxTxtLines}

\* _on_load_txt_to_queue: one preset object for every line of the file.
OnLoadTxtToQueue ==
    /\ UiIdle /\ buttons.load_txt
    /\ \E lines \in TxtFiles :
        /\ allocated + Len(lines) <= MaxJobs
        /\ allocated' = allocated + Len(lines)
        /\ items' = [i \in Ids |->
                        IF i \in (allocated + 1)..(allocated + Len(lines))
                        THEN QueueItem(lines[i - allocated], ui_preset)
                        ELSE items[i]]
        /\ queue' = queue \o [k \in 1..Len(lines) |-> allocated + k]
        /\ queue_tv' = queue_tv \o [k \in 1..Len(lines) |-> allocated + k]
        /\ preset_obj' = [i \in Ids |->
                             IF i \in (allocated + 1)..(allocated + Len(lines))
                             THEN allocated + 1
                             ELSE preset_obj[i]]
        /\ UNCHANGED <<queue_running, cancel_event, updating, download_thread,
                       buttons, modal, qt, frame, cancel_in_run,
                       ui_preset, picked, fmt_vars, aux_vars>>

\* OnStartQueue without the queue_running check: a worker is started whenever
\* the queue is not empty.
OnStartQueue_Unchecked ==
    /\ UiIdle /\ buttons.start_queue
    /\ IF queue = <<>>
       THEN /\ modal' = MessageBox("queue_empty")
            /\ UNCHANGED <<items, allocated, queue, queue_tv, queue_running,
                           cancel_event, updating, download_thread, buttons, qt,
                           frame, cancel_in_run,
                   ui_preset, picked, preset_obj, fmt_vars, aux_vars>>
       ELSE /\ cancel_event' = FALSE
            /\ queue_running' = TRUE
            /\ buttons' = ToggleControls(TRUE, TRUE)
            /\ qt' = [pc |-> "start", snap |-> <<>>, k |-> 0]
            /\ cancel_in_run' = FALSE
            /\ picked' = <<>>
            /\ UNCHANGED <<items, allocated, queue, queue_tv, updating,
                           download_thread, modal, frame, ui_preset,
                           preset_obj, fmt_vars, aux_vars>>

\* _on_start_queue.
OnStartQueue ==
    /\ UiIdle /\ buttons.start_queue
    /\ IF queue_running
       THEN /\ modal' = MessageBox("already_running")
            /\ UNCHANGED <<items, allocated, queue, queue_tv, queue_running,
                           cancel_event, updating, download_thread, buttons, qt,
                           frame, cancel_in_run,
                   ui_preset, picked, preset_obj, fmt_vars, aux_vars>>
       ELSE IF queue = <<>>
       THEN /\ modal' = MessageBox("queue_empty")
            /\ UNCHANGED <<items, allocated, queue, queue_tv, queue_running,
                           cancel_event, updating, download_thread, buttons, qt,
                           frame, cancel_in_run,
                   ui_preset, picked, preset_obj, fmt_vars, aux_vars>>
       ELSE /\ cancel_event' = FALSE
            /\ queue_running' = TRUE
            /\ buttons' = ToggleControls(TRUE, TRUE)
            /\ qt' = [pc |-> "start", snap |-> <<>>, k |-> 0]
            /\ cancel_in_run' = FALSE
            /\ picked' = <<>>
            /\ UNCHANGED <<items, allocated, queue, queue_tv, updating,
                           download_thread, modal, frame, ui_preset,
                           preset_obj, fmt_vars, aux_vars>>

\* OnClearQueue without the queue_running check.
OnClearQueue_Unchecked ==
    /\ UiIdle /\ buttons.clear_queue
    /\ queue' = <<>>
    /\ queue_tv' = <<>>
    /\ items' = Collect(items, SeqIds(qt.snap))
    /\ preset_obj' = LiveObjects(preset_obj, items')
    /\ UNCHANGED <<allocated, queue_running, cancel_event, updating,
                   download_thread, buttons, modal, qt, frame, cancel_in_run,
                   ui_preset, picked, fmt_vars, aux_vars>>

\* _on_clear_queue.
OnClearQueue ==
    /\ UiIdle /\ buttons.clear_queue
    /\ IF queue_running
       THEN /\ modal' = MessageBox("cannot_clear")
            /\ UNCHANGED <<items, allocated, queue, queue_tv, queue_running,
                           cancel_event, updating, download_thread, buttons, qt,
                           frame, cancel_in_run,
                   ui_preset, picked, preset_obj, fmt_vars, aux_vars>>
       ELSE /\ queue' = <<>>
            /\ queue_tv' = <<>>
            /\ items' = Collect(items, {})
            /\ preset_obj' = [i \in Ids |-> 0]
            /\ UNCHANGED <<allocated, queue_running, cancel_event, updating,
                           download_thread, buttons, modal, qt, frame,
                           cancel_in_run, ui_preset, picked, fmt_vars, aux_vars>>

\* _on_update_yt_dlp: refused while a queue runs or the one-off thread is alive;
\* a click while self._updating returns at once.
OnUpdateYtDlp ==
    /\ UiIdle /\ buttons.update_yt
    /\ IF queue_running \/ DownloadThreadAlive
       THEN /\ modal' = MessageBox("busy")
            /\ UNCHANGED <<items, allocated, queue, queue_tv, queue_running,
                           cancel_event, updating, download_thread, buttons, qt,
                           frame, cancel_in_run,
                   ui_preset, picked, preset_obj, fmt_vars, aux_vars>>
       ELSE /\ ~updating
            /\ updating' = TRUE
            /\ buttons' = ToggleControls(TRUE, FALSE)
            /\ UNCHANGED <<items, allocated, queue, queue_tv, queue_running,
                           cancel_event, download_thread, modal, qt, frame,
                           cancel_in_run,
                   ui_preset, picked, preset_obj, fmt_vars, aux_vars>>

\* The user closes a message box; the handler that showed it returns.
DismissMessageBox ==
    /\ modal.kind \notin {"none", "edit"}
    /\ modal' = NoModal
    /\ UNCHANGED <<items, allocated, queue, queue_tv, queue_running, cancel_event,
                   updating, download_thread, buttons, qt, frame, cancel_in_run,
                   ui_preset, picked, preset_obj, fmt_vars, aux_vars>>

\* ------------------------------------------------- queue rows: edit, delete
\* _queue_remove_item: self.queue.remove(item), then the row of this object.
QueueRemoveItem(q, tv, h, id) == <<ListRemove(q, h, id), TvDelete(tv, id)>>

\* The loop of _on_queue_delete_selected over the selected rows, in row order.
RECURSIVE DeleteRows(_, _, _, _)
DeleteRows(q, tv, h, sel) ==
    IF sel = <<>> THEN <<q, tv>>
    ELSE LET item == QueueItemByIid(q, Head(sel))
         IN  IF item = 0 THEN DeleteRows(q, tv, h, Tail(sel))
             ELSE LET r == QueueRemoveItem(q, tv, h, item)
                  IN  DeleteRows(r[1], r[2], h, Tail(sel))

\* _on_queue_delete_selected, confirmed by the user.  The menu entry is disabled
\* while queue_running (_on_queue_right_click) and the handler checks it again.
OnQueueDeleteSelected ==
    /\ UiIdle /\ ~queue_running
    /\ \E chosen \in (SUBSET SeqIds(queue_tv)) \ {{}} :
        LET sel == SelectSeq(queue_tv, LAMBDA r : r \in chosen)
            r   == DeleteRows(queue, queue_tv, items, sel)
        IN  /\ queue' = r[1]
            /\ queue_tv' = r[2]
            /\ items' = Collect(items, SeqIds(r[1]))
    /\ preset_obj' = LiveObjects(preset_obj, items')
    /\ UNCHANGED <<allocated, queue_running, cancel_event, updating,
                   download_thread, buttons, modal, qt, frame, cancel_in_run,
                   ui_preset, picked, fmt_vars, aux_vars>>

\* _edit_queue_item(item) for the first selected row: opens the modal dialog.
EditQueueItem(iid) ==
    /\ QueueItemByIid(queue, iid) # 0
    /\ modal' = EditDialog(iid)
    /\ UNCHANGED <<items, allocated, queue, queue_tv, queue_running, cancel_event,
                   updating, download_thread, buttons, qt, frame, cancel_in_run,
                   ui_preset, picked, preset_obj, fmt_vars, aux_vars>>

\* _on_queue_edit_selected (menu entry, disabled while queue_running).
OnQueueEditSelected ==
    /\ UiIdle /\ ~queue_running
    /\ \E iid \in SeqIds(queue_tv) : EditQueueItem(iid)

\* _on_queue_double_click: returns at once while queue_running.
OnQueueDoubleClick ==
    /\ UiIdle /\ ~queue_running
    /\ \E iid \in SeqIds(queue_tv) : EditQueueItem(iid)

\* on_ok writing the new values into the item's DownloadPreset object instead
\* of binding a new object.
EditOnOk_InPlace ==
    /\ modal.kind = "edit"
    /\ \E new_preset \in UiPresets :
        items' = [i \in Ids |->
                    IF preset_obj[i] # 0 /\ preset_obj[i] = preset_obj[modal.item]
                    THEN [items[i] EXCEPT !.preset = new_preset]
                    ELSE items[i]]
    /\ modal' = NoModal
    /\ UNCHANGED <<allocated, queue, queue_tv, queue_running, cancel_event,
                   updating, download_thread, buttons, qt, frame, cancel_in_run,
                   ui_preset, picked, preset_obj, fmt_vars, aux_vars>>

\* _edit_queue_item.on_ok: item.preset = new_preset; the dialog closes.
EditOnOk ==
    /\ modal.kind = "edit"
    /\ \E new_preset \in UiPresets :
        items' = [items EXCEPT ![modal.item].preset = new_preset]
    /\ preset_obj' = NewPresetObject(preset_obj, modal.item)
    /\ modal' = NoModal
    /\ UNCHANGED <<allocated, queue, queue_tv, queue_running, cancel_event,
                   updating, download_thread, buttons, qt, frame, cancel_in_run,
                   ui_preset, picked, fmt_vars, aux_vars>>

\* The dialog's Cancel button: win.destroy.
EditCancel ==
    /\ modal.kind = "edit"
    /\ modal' = NoModal
    /\ UNCHANGED <<items, allocated, queue, queue_tv, queue_running, cancel_event,
                   updating, download_thread, buttons, qt, frame, cancel_in_run,
                   ui_preset, picked, preset_obj, fmt_vars, aux_vars>>

\* _probe_title_async.worker: item.title = title, whenever the probe returns.
ProbeTitleAsync ==
    /\ NoMessageBox
    /\ \E id \in SeqIds(queue) \cup SeqIds(qt.snap) :
        /\ items[id].title = None
        /\ items' = [items EXCEPT ![id].title = TitleOf(items[id].url)]
    /\ UNCHANGED <<allocated, queue, queue_tv, queue_running, cancel_event,
                   updating, download_thread, buttons, modal, qt, frame,
                   cancel_in_run,
                   ui_preset, picked, preset_obj, fmt_vars, aux_vars>>

\* ------------------------------------------- _run_single_download, by step
\* SetJobStatus with the final status write forgotten.
SetJobStatus_Forgotten(h, f, status) == h

\* "if queue_item: queue_item.status = s; self._queue_update_status(queue_item, s)".
SetJobStatus(h, f, status) ==
    IF f.item # 0 THEN QueueUpdateStatus(h, f.item, status) ELSE h

\* "if 'requested_downloads' in info ...: queue_item.result_path = filepath":
\* the engine's result names the artifact (reported) or does not.
SetResultPath(h, f, reported) ==
    IF f.item # 0 /\ reported THEN [h EXCEPT ![f.item].result_path = "out"] ELSE h

\* The return of _run_single_download with value ret: the locals are gone.
Return(f, ret) == [NoFrame EXCEPT !.pc = "ret", !.item = f.item, !.ret = ret]

\* What the download steps leave alone.
DownloadFrame ==
    /\ NoMessageBox
    /\ UNCHANGED <<allocated, queue, queue_tv, queue_running, cancel_event, updating,
                download_thread, buttons, modal, qt, cancel_in_run,
                   ui_preset, picked, preset_obj, fmt_vars, aux_vars>>

\* Probe in which a failed metadata fetch ends the job as 'Ошибка'.
Probe_Fatal(t) ==
    /\ frame[t].pc = "probe"
    /\ \E ok \in BOOLEAN :
        IF ok
        THEN /\ items' = IF frame[t].item # 0 /\ items[frame[t].item].title = None
                         THEN [items EXCEPT ![frame[t].item].title =
                                                TitleOf(items[frame[t].item].url)]
                         ELSE items
             /\ frame' = [frame EXCEPT ![t].pc = "primary"]
        ELSE /\ items' = SetJobStatus(items, frame[t], Failed)
             /\ frame' = [frame EXCEPT ![t] = Return(frame[t], "error")]
    /\ DownloadFrame

\* The probe (extract_info(download=False) on a copy of base_opts, no progress
\* hook): fills the item's title when it has none; a failure (ok FALSE) is
\* caught by "except Exception" and logged.  The primary attempt follows with
\* run_opts = dict(base_opts), the options built before the probe.
Probe(t) ==
    /\ frame[t].pc = "probe"
    /\ \E ok \in BOOLEAN :
        items' = IF ok /\ frame[t].item # 0 /\ items[frame[t].item].title = None
                 THEN [items EXCEPT ![frame[t].item].title =
                                        TitleOf(items[frame[t].item].url)]
                 ELSE items
    /\ frame' = [frame EXCEPT ![t].pc = "primary"]
    /\ DownloadFrame

\* The progress hook, called by the engine during a video+audio attempt, with
\* the cancel flag set: raises KeyboardInterrupt, which the attempt's
\* "except KeyboardInterrupt" turns into status 'Отменено' and return "cancel".
\* (With the flag unset the hook writes the progress bar and the log only.)
ProgressHook(t) ==
    /\ frame[t].pc \in {"primary", "fallback"}
    /\ cancel_event
    /\ items' = SetJobStatus(items, frame[t], Canceled)
    /\ frame' = [frame EXCEPT ![t] = Return(frame[t], "cancel")]
    /\ DownloadFrame

\* Attempt 1 returns from extract_info: result path, status 'Готово', "success".
PrimarySuccess(t) ==
    /\ frame[t].pc = "primary"
    /\ \E reported \in BOOLEAN :
        items' = SetJobStatus(SetResultPath(items, frame[t], reported),
                              frame[t], Succeeded)
    /\ frame' = [frame EXCEPT ![t] =
          Return(frame[t], "success")]
    /\ DownloadFrame

\* PrimaryError without the second attempt: the error ends the job as 'Ошибка'.
PrimaryError_NoFallback(t) ==
    /\ frame[t].pc = "primary"
    /\ items' = SetJobStatus(items, frame[t], IF cancel_event THEN Canceled ELSE Failed)
    /\ frame' = [frame EXCEPT ![t] =
          Return(frame[t], IF cancel_event THEN "cancel" ELSE "error")]
    /\ DownloadFrame

\* Attempt 1 raises an Exception: with the cancel flag set the job is canceled,
\* otherwise attempt 2 starts with fallback_opts = dict(run_opts) and
\* merge_output_format "mkv": every other option, "continuedl" too, is kept.
PrimaryError(t) ==
    /\ frame[t].pc = "primary"
    /\ IF cancel_event
       THEN /\ items' = SetJobStatus(items, frame[t], Canceled)
            /\ frame' = [frame EXCEPT ![t] =
                  Return(frame[t], "cancel")]
       ELSE /\ frame' = [frame EXCEPT ![t] =
                  [frame[t] EXCEPT !.pc = "fallback", !.container = "mkv",
                                   !.fallbacks = frame[t].fallbacks + 1]]
            /\ UNCHANGED items
    /\ DownloadFrame

\* Attempt 2 returns: status 'Готово (mkv)', "success".
FallbackSuccess(t) ==
    /\ frame[t].pc = "fallback"
    /\ \E reported \in BOOLEAN :
        items' = SetJobStatus(SetResultPath(items, frame[t], reported),
                              frame[t], SucceededFallback)
    /\ frame' = [frame EXCEPT ![t] =
          Return(frame[t], "success")]
    /\ DownloadFrame

\* FallbackError returning "error" without writing the status of the job.
FallbackError_NoStatus(t) ==
    /\ frame[t].pc = "fallback"
    /\ UNCHANGED items
    /\ frame' = [frame EXCEPT ![t] =
          Return(frame[t], "error")]
    /\ DownloadFrame

\* Attempt 2 raises an Exception: status 'Ошибка', "error".
FallbackError(t) ==
    /\ frame[t].pc = "fallback"
    /\ items' = SetJobStatus(items, frame[t], Failed)
    /\ frame' = [frame EXCEPT ![t] =
          Return(frame[t], "error")]
    /\ DownloadFrame

\* The audio-only attempt (no progress hook in its options) returns:
\* status 'Готово', "success".
AudioSuccess(t) ==
    /\ frame[t].pc = "audio"
    /\ \E reported \in BOOLEAN :
        items' = SetJobStatus(SetResultPath(items, frame[t], reported),
                              frame[t], Succeeded)
    /\ frame' = [frame EXCEPT ![t] =
          Return(frame[t], "success")]
    /\ DownloadFrame

\* The audio-only attempt raises an Exception: status 'Ошибка', "error".
AudioError(t) ==
    /\ frame[t].pc = "audio"
    /\ items' = SetJobStatus(items, frame[t], Failed)
    /\ frame' = [frame EXCEPT ![t] =
          Return(frame[t], "error")]
    /\ DownloadFrame

\* _run_single_download_thread after the download returned:
\* _toggle_controls(downloading=False, queue_mode=False); the thread ends.
DownloadThreadExit(t) ==
    /\ NoMessageBox
    /\ t \in OneOffThreads
    /\ frame[t].pc = "ret"
    /\ buttons' = ToggleControls(FALSE, FALSE)
    /\ frame' = [frame EXCEPT ![t] = NoFrame]
    /\ download_thread' = IF download_thread = t THEN 0 ELSE download_thread
    /\ UNCHANGED <<items, allocated, queue, queue_tv, queue_running, cancel_event,
                   updating, modal, qt, cancel_in_run,
                   ui_preset, picked, preset_obj, fmt_vars, aux_vars>>

\* _update_yt_dlp_worker, finally: self._updating = False and
\* _toggle_controls(downloading=False, queue_mode=False).
UpdateYtDlpWorker ==
    /\ NoMessageBox
    /\ updating
    /\ updating' = FALSE
    /\ buttons' = ToggleControls(FALSE, FALSE)
    /\ UNCHANGED <<items, allocated, queue, queue_tv, queue_running, cancel_event,
                   download_thread, modal, qt, frame, cancel_in_run,
                   ui_preset, picked, preset_obj, fmt_vars, aux_vars>>

\* ------------------------------------------------------------ _run_queue
\* Reverse(q): q back to front.
Reverse(q) == [k \in 1..Len(q) |-> q[Len(q) + 1 - k]]

\* RunQueueBegin iterating over the queue from its last job to its first.
RunQueueBegin_Reversed ==
    /\ NoMessageBox
    /\ qt.pc = "start"
    /\ qt' = [pc |-> "loop", snap |-> Reverse(queue), k |-> 1]
    /\ UNCHANGED <<items, allocated, queue, queue_tv, queue_running, cancel_event,
                   updating, download_thread, buttons, modal, frame, cancel_in_run,
                   ui_preset, picked, preset_obj, fmt_vars, aux_vars>>

\* "for item in list(self.queue)": the worker snapshots the queue.
RunQueueBegin ==
    /\ NoMessageBox
    /\ qt.pc = "start"
    /\ qt' = [pc |-> "loop", snap |-> queue, k |-> 1]
    /\ UNCHANGED <<items, allocated, queue, queue_tv, queue_running, cancel_event,
                   updating, download_thread, buttons, modal, frame, cancel_in_run,
                   ui_preset, picked, preset_obj, fmt_vars, aux_vars>>

\* Top of the loop: the snapshot is exhausted (for-else), the cancel flag is set
\* (break), or the next item becomes 'В процессе' and its download is called.
RunQueueNext ==
    /\ NoMessageBox
    /\ qt.pc = "loop"
    /\ IF qt.k > Len(qt.snap) \/ cancel_event
       THEN /\ qt' = [qt EXCEPT !.pc = "finally"]
            /\ UNCHANGED <<items, frame, picked>>
       ELSE /\ items' = QueueUpdateStatus(items, qt.snap[qt.k], Running)
            /\ frame' = [frame EXCEPT ![QueueThread] =
                  CallRunSingleDownload(items[qt.snap[qt.k]].preset, qt.snap[qt.k])]
            /\ qt' = [qt EXCEPT !.pc = "job"]
            /\ picked' = Append(picked, qt.snap[qt.k])
    /\ UNCHANGED <<allocated, queue, queue_tv, queue_running, cancel_event,
                   updating, download_thread, buttons, modal, cancel_in_run,
                   ui_preset, preset_obj, fmt_vars, aux_vars>>

\* RunQueueAfter removing the item whatever the download returned.
RunQueueAfter_RemoveAlways ==
    /\ NoMessageBox
    /\ qt.pc = "job"
    /\ frame[QueueThread].pc = "ret"
    /\ LET r == QueueRemoveItem(queue, queue_tv, items, frame[QueueThread].item)
       IN  /\ queue' = r[1]
           /\ queue_tv' = r[2]
    /\ frame' = [frame EXCEPT ![QueueThread] = NoFrame]
    /\ qt' = IF cancel_event THEN [qt EXCEPT !.pc = "finally"]
             ELSE [qt EXCEPT !.pc = "loop", !.k = qt.k + 1]
    /\ items' = Collect(items, SeqIds(queue') \cup
                                {qt.snap[j] : j \in (qt.k + 1)..Len(qt.snap)})
    /\ preset_obj' = LiveObjects(preset_obj, items')
    /\ UNCHANGED <<allocated, queue_running, cancel_event, updating,
                   download_thread, buttons, modal, cancel_in_run,
                   ui_preset, picked, fmt_vars, aux_vars>>

\* RunQueueAfter leaving the loop after every job that did not succeed.
RunQueueAfter_StopOnError ==
    /\ NoMessageBox
    /\ qt.pc = "job"
    /\ frame[QueueThread].pc = "ret"
    /\ LET r == IF frame[QueueThread].ret = "success"
                THEN QueueRemoveItem(queue, queue_tv, items, frame[QueueThread].item)
                ELSE <<queue, queue_tv>>
       IN  /\ queue' = r[1]
           /\ queue_tv' = r[2]
    /\ frame' = [frame EXCEPT ![QueueThread] = NoFrame]
    /\ qt' = IF cancel_event \/ frame[QueueThread].ret # "success"
             THEN [qt EXCEPT !.pc = "finally"]
             ELSE [qt EXCEPT !.pc = "loop", !.k = qt.k + 1]
    /\ items' = Collect(items, SeqIds(queue') \cup
                                {qt.snap[j] : j \in (qt.k + 1)..Len(qt.snap)})
    /\ preset_obj' = LiveObjects(preset_obj, items')
    /\ UNCHANGED <<allocated, queue_running, cancel_event, updating,
                   download_thread, buttons, modal, cancel_in_run,
                   ui_preset, picked, fmt_vars, aux_vars>>

\* After _run_single_download returned: a "success" removes the item; then the
\* cancel flag breaks the loop.
RunQueueAfter ==
    /\ NoMessageBox
    /\ qt.pc = "job"
    /\ frame[QueueThread].pc = "ret"
    /\ LET r == IF frame[QueueThread].ret = "success"
                THEN QueueRemoveItem(queue, queue_tv, items, frame[QueueThread].item)
                ELSE <<queue, queue_tv>>
       IN  /\ queue' = r[1]
           /\ queue_tv' = r[2]
    /\ frame' = [frame EXCEPT ![QueueThread] = NoFrame]
    /\ qt' = IF cancel_event THEN [qt EXCEPT !.pc = "finally"]
             ELSE [qt EXCEPT !.pc = "loop", !.k = qt.k + 1]
    /\ items' = Collect(items, SeqIds(queue') \cup
                                {qt.snap[j] : j \in (qt.k + 1)..Len(qt.snap)})
    /\ preset_obj' = LiveObjects(preset_obj, items')
    /\ UNCHANGED <<allocated, queue_running, cancel_event, updating,
                   download_thread, buttons, modal, cancel_in_run,
                   ui_preset, picked, fmt_vars, aux_vars>>

\* RunQueueFinally as the else clause of the loop: a run left by break (the
\* cancel flag is set) ends without the cleanup.
RunQueueFinally_NotOnCancel ==
    /\ NoMessageBox
    /\ qt.pc = "finally"
    /\ queue_running' = cancel_event
    /\ buttons' = IF cancel_event THEN buttons ELSE ToggleControls(FALSE, TRUE)
    /\ qt' = NoQueueThread
    /\ items' = Collect(items, SeqIds(queue))
    /\ cancel_in_run' = FALSE
    /\ picked' = <<>>
    /\ preset_obj' = LiveObjects(preset_obj, items')
    /\ UNCHANGED <<allocated, queue, queue_tv, cancel_event, updating,
                   download_thread, modal, frame, ui_preset, fmt_vars, aux_vars>>

\* finally: self.queue_running = False;
\* _toggle_controls(downloading=False, queue_mode=True).  The thread ends and
\* drops its snapshot.
RunQueueFinally ==
    /\ NoMessageBox
    /\ qt.pc = "finally"
    /\ queue_running' = FALSE
    /\ buttons' = ToggleControls(FALSE, TRUE)
    /\ qt' = NoQueueThread
    /\ items' = Collect(items, SeqIds(queue))
    /\ cancel_in_run' = FALSE
    /\ picked' = <<>>
    /\ preset_obj' = LiveObjects(preset_obj, items')
    /\ UNCHANGED <<allocated, queue, queue_tv, cancel_event, updating,
                   download_thread, modal, frame, ui_preset, fmt_vars, aux_vars>>

\* ------------------------------------------------------ format resolution
\* The values of the settings comboboxes; "Auto" stands for 'Авто'.
Heights == {480, 720, 1080, 1440, 2160, 4320}
VcodecChoices == {"Auto", "AV1 (av01)", "VP9 (vp9)", "H.264 (avc1)"}
AcodecChoices == {"Auto", "Opus (opus)", "AAC (mp4a)", "Vorbis (vorbis)"}
ContainerChoices == {"Auto", "mp4", "mkv", "webm"}
\* Language codes the engine reports for the audio tracks of a video, and the
\* values of the audio language combobox.
LangCodes == {"ru", "de"}
AlangChoices == {"orig", "ru", "en", "de"}

\* str.startswith for the combobox values.
StartsWith(s, prefix) ==
    CASE prefix = "AV1"    -> s = "AV1 (av01)"
      [] prefix = "VP9"    -> s = "VP9 (vp9)"
      [] prefix = "H.264"  -> s = "H.264 (avc1)"
      [] prefix = "Opus"   -> s = "Opus (opus)"
      [] prefix = "AAC"    -> s = "AAC (mp4a)"
      [] prefix = "Vorbis" -> s = "Vorbis (vorbis)"
      [] OTHER             -> FALSE

\* _norm_vcodec_choice.
NormVcodecChoice(s) ==
    IF StartsWith(s, "AV1") THEN "av1"
    ELSE IF StartsWith(s, "VP9") THEN "vp9"
    ELSE IF StartsWith(s, "H.264") THEN "h264"
    ELSE "auto"

\* _norm_acodec_choice.
NormAcodecChoice(s) ==
    IF StartsWith(s, "Opus") THEN "opus"
    ELSE IF StartsWith(s, "AAC") THEN "aac"
    ELSE IF StartsWith(s, "Vorbis") THEN "vorbis"
    ELSE "auto"

\* The sentences of the resolver's warning.  A warning is the sequence of its
\* sentences (the source joins them with a blank); None is the empty sequence.
WarnMp4Video  == "MP4: video codec corrected to H.264."
WarnMp4Audio  == "MP4: audio codec corrected to AAC."
WarnWebmVideo == "WEBM: video codec corrected to VP9."
WarnWebmAudio == "WEBM: audio codec corrected to Opus."
NoWarn == <<>>

\* The resolver leaving every preference alone.
ResolveCodecsForContainer_NoCorrection(vcodec, acodec, container) ==
    [eff_v |-> vcodec, eff_a |-> acodec, warn |-> NoWarn]

\* The resolver correcting the codecs for mp4 only.
ResolveCodecsForContainer_Mp4Only(vcodec, acodec, container) ==
    IF container = "mp4"
    THEN [eff_v |-> "h264", eff_a |-> "aac",
          warn  |-> (IF vcodec \in {"av1", "vp9"} THEN <<WarnMp4Video>> ELSE NoWarn)
                    \o (IF acodec \in {"opus", "vorbis"} THEN <<WarnMp4Audio>> ELSE NoWarn)]
    ELSE [eff_v |-> vcodec, eff_a |-> acodec, warn |-> NoWarn]

\* The resolver treating every container as mp4.
ResolveCodecsForContainer_AlwaysMp4(vcodec, acodec, container) ==
    [eff_v |-> "h264", eff_a |-> "aac",
     warn  |-> (IF vcodec \in {"av1", "vp9"} THEN <<WarnMp4Video>> ELSE NoWarn)
               \o (IF acodec \in {"opus", "vorbis"} THEN <<WarnMp4Audio>> ELSE NoWarn)]

\* The resolver warning about every codec it sets for mp4, "auto" included.
ResolveCodecsForContainer_WarnOnAuto(vcodec, acodec, container) ==
    IF container = "mp4"
    THEN [eff_v |-> "h264", eff_a |-> "aac",
          warn  |-> (IF vcodec # "h264" THEN <<WarnMp4Video>> ELSE NoWarn)
                    \o (IF acodec # "aac" THEN <<WarnMp4Audio>> ELSE NoWarn)]
    ELSE [eff_v |-> vcodec, eff_a |-> acodec, warn |-> NoWarn]

\* _resolve_codecs_for_container(vcodec, acodec, container): (eff_v, eff_a, warn).
ResolveCodecsForContainer(vcodec, acodec, container) ==
    IF container = "mp4"
    THEN LET w1 == IF vcodec \in {"av1", "vp9"} THEN <<WarnMp4Video>> ELSE NoWarn
             w2 == IF acodec \in {"opus", "vorbis"} THEN w1 \o <<WarnMp4Audio>> ELSE w1
         IN  [eff_v |-> IF vcodec \in {"av1", "vp9", "auto"} THEN "h264" ELSE vcodec,
              eff_a |-> IF acodec \in {"opus", "vorbis", "auto"} THEN "aac" ELSE acodec,
              warn  |-> w2]
    ELSE IF container = "webm"
    THEN LET w1 == IF vcodec = "h264" THEN <<WarnWebmVideo>> ELSE NoWarn
             w2 == IF acodec = "aac" THEN w1 \o <<WarnWebmAudio>> ELSE w1
         IN  [eff_v |-> IF vcodec = "h264" THEN "vp9" ELSE vcodec,
              eff_a |-> IF acodec = "aac" THEN "opus" ELSE acodec,
              warn  |-> w2]
    ELSE [eff_v |-> vcodec, eff_a |-> acodec, warn |-> NoWarn]

\* The vfilter of _format_selector, as the sequence of its pieces.
VFilter(height, vcodec) ==
    <<"bestvideo[height<=?", ToString(height), "]">>
    \o (IF vcodec = "av1" THEN <<"[vcodec^=av01]">>
        ELSE IF vcodec = "vp9" THEN <<"[vcodec=vp9]">>
        ELSE IF vcodec = "h264" THEN <<"[vcodec^=avc1]">>
        ELSE <<>>)

\* The afilter of _format_selector.
AFilter(acodec, alang) ==
    <<"bestaudio">>
    \o (IF acodec = "aac" THEN <<"[acodec^=mp4a]">>
        ELSE IF acodec = "opus" THEN <<"[acodec=opus]">>
        ELSE IF acodec = "vorbis" THEN <<"[acodec=vorbis]">>
        ELSE <<>>)
    \o (IF alang = "ru" THEN <<"[language^=ru]">>
        ELSE IF alang = "en" THEN <<"[language^=en]">>
        ELSE <<>>)

\* A selector whose language filter depends on the languages known so far.
FormatSelector_KnownLanguages(height, vcodec, acodec, alang) ==
    [vfilter |-> VFilter(height, vcodec),
     afilter |-> AFilter(acodec, IF alang \in available_audio_languages
                                 THEN alang ELSE "orig"),
     rest    |-> <<"/best[height<=?", ToString(height), "]">>]

\* _format_selector(height, vcodec, acodec, alang): the string
\* f"{vfilter}+{afilter}/best[height<=?{height}]", kept in its three parts.
FormatSelector(height, vcodec, acodec, alang) ==
    [vfilter |-> VFilter(height, vcodec),
     afilter |-> AFilter(acodec, alang),
     rest    |-> <<"/best[height<=?", ToString(height), "]">>]

\* The filter f"[language^={lang}]".
LanguageFilter(lang) == "[language^=" \o lang \o "]"

\* The selector of the audio-only branch of _run_single_download,
\* "bestaudio[language^=<lang>]/bestaudio" or "bestaudio", as the sequence of
\* its pieces.  lang is alang_choice in lower case; the values of the language
\* combobox are lower case already (_update_languages_from_info).
AudioOnlySelector(preset) ==
    LET lang == preset.alang_choice
    IN  (IF lang # "" /\ lang # "orig"
         THEN <<"bestaudio", LanguageFilter(lang), "/">>
         ELSE <<>>)
        \o <<"bestaudio">>

\* The presets of the settings widgets, video+audio mode.
FormatPresets ==
    {DownloadPreset(h, v, a, l, c, FALSE) :
        h \in Heights, v \in VcodecChoices, a \in AcodecChoices,
        l \in AlangChoices, c \in ContainerChoices}

\* The head of _run_single_download for a video+audio preset: the choices are
\* normalised, the codecs resolved for the container, the selector built.
Resolution(preset) ==
    LET vch == NormVcodecChoice(preset.vcodec_choice)
        ach == NormAcodecChoice(preset.acodec_choice)
        container_choice == NormContainerChoice(preset.container_choice)
        r == ResolveCodecsForContainer(vch, ach, container_choice)
    IN  [preset |-> preset, vch |-> vch, ach |-> ach,
         container_choice |-> container_choice,
         eff_v |-> r.eff_v, eff_a |-> r.eff_a, warn |-> r.warn,
         fmt |-> FormatSelector(preset.height, r.eff_v, r.eff_a, preset.alang_choice)]

\* The variables of the job orchestration.
orch_vars == <<items, allocated, queue, queue_tv, queue_running, cancel_event,
               updating, download_thread, buttons, modal, qt, frame, cancel_in_run,
               ui_preset, picked, preset_obj>>

\* A download of a preset resolves its format; a later download of the same
\* preset (the job run again, the same settings used for another job) resolves
\* it again.
\* audio is the selector the same settings give with "audio only" ticked.
ResolveFormat ==
    /\ Len(resolved) < MaxResolutions
    /\ \E preset \in FormatPresets :
        /\ resolved # <<>> => preset = resolved[1].call.preset
        /\ resolved' = Append(resolved,
                              [call  |-> Resolution(preset),
                               audio |-> AudioOnlySelector(
                                             [preset EXCEPT !.audio_only = TRUE]),
                               known |-> available_audio_languages])
    /\ UNCHANGED <<available_audio_languages, orch_vars, aux_vars>>

\* _update_languages_from_info: the formats of the fetched metadata name audio
\* languages; the list becomes "orig" and the languages found.
UpdateLanguagesFromInfo ==
    /\ \E audio_langs \in (SUBSET LangCodes) \ {{}} :
        /\ available_audio_languages # {"orig"} \cup audio_langs
        /\ available_audio_languages' = {"orig"} \cup audio_langs
    /\ UNCHANGED <<resolved, orch_vars, aux_vars>>

FormatNext ==
    \/ ResolveFormat
    \/ UpdateLanguagesFromInfo

FormatSpec == Init /\ [][FormatNext]_vars

\* ============================================================ file naming
\* A str is the sequence of its characters, each a one-character string.
\* Longest title of the exhaustive sanitizer check; downloads of one behaviour
\* of RenameSpec; names already taken in the folder of a composed name;
\* longest string handed to _ellipsize on its own;
\* shortest and longest output folder path.
MaxTitleLen == 3
MaxRenameJobs == 2
MaxTaken == 2
MaxEllipsizeLen == 12
MinFolderLen == 150
MaxFolderLen == 230

SAFE_MAX_PATH == 240
MIN_BASE_LEN == 20

\* The characters str.strip() and str.split() treat as whitespace (those that
\* occur in the titles considered).
Whitespace == {" ", "\t", "\n", "\r"}

\* The characters _sanitize_title replaces by a space.
Forbidden == {"<", ">", ":", "\"", "/", "\\", "|", "?", "*"}

\* The character "…" (one character) _ellipsize inserts.
Ellipsis == "..."

\* s.strip(chars) and s.lstrip(chars).
StrStrip(s, chars) ==
    IF \A i \in 1..Len(s) : s[i] \in chars THEN <<>>
    ELSE SubSeq(s, CHOOSE i \in 1..Len(s) :
                       s[i] \notin chars /\ \A j \in 1..(i - 1) : s[j] \in chars,
                   CHOOSE i \in 1..Len(s) :
                       s[i] \notin chars /\ \A j \in (i + 1)..Len(s) : s[j] \in chars)

StrLStrip(s, chars) ==
    IF \A i \in 1..Len(s) : s[i] \in chars THEN <<>>
    ELSE SubSeq(s, CHOOSE i \in 1..Len(s) :
                       s[i] \notin chars /\ \A j \in 1..(i - 1) : s[j] \in chars,
                   Len(s))

\* s.replace(ch, c) for every ch in chars, c one character.
ReplaceEach(s, chars, c) == [i \in 1..Len(s) |-> IF s[i] \in chars THEN c ELSE s[i]]

\* " ".join(s.split()): the words of s, separated by single spaces.
RECURSIVE JoinSplit(_)
JoinSplit(s) ==
    IF \A i \in 1..Len(s) : s[i] \notin Whitespace THEN s
    ELSE IF s[1] \in Whitespace \/ s[Len(s)] \in Whitespace
         THEN JoinSplit(StrStrip(s, Whitespace))
         ELSE SubSeq(s, 1, (CHOOSE i \in 1..Len(s) :
                               s[i] \in Whitespace
                                   /\ \A j \in 1..(i - 1) : s[j] \notin Whitespace) - 1)
                  \o <<" ">>
                  \o JoinSplit(SubSeq(s, CHOOSE i \in 1..Len(s) :
                                             s[i] \in Whitespace
                                                 /\ \A j \in 1..(i - 1) : s[j] \notin Whitespace,
                                         Len(s)))

\* s.replace("__", "_"): the non-overlapping occurrences, from the left.
RECURSIVE ReplaceDouble(_)
ReplaceDouble(s) ==
    IF \A i \in 1..(Len(s) - 1) : ~(s[i] = "_" /\ s[i + 1] = "_") THEN s
    ELSE SubSeq(s, 1, CHOOSE i \in 1..(Len(s) - 1) :
                          /\ s[i] = "_" /\ s[i + 1] = "_"
                          /\ \A j \in 1..(i - 1) : ~(s[j] = "_" /\ s[j + 1] = "_"))
             \o ReplaceDouble(SubSeq(s, 2 + (CHOOSE i \in 1..(Len(s) - 1) :
                                              /\ s[i] = "_" /\ s[i + 1] = "_"
                                              /\ \A j \in 1..(i - 1) :
                                                    ~(s[j] = "_" /\ s[j + 1] = "_")),
                                     Len(s)))

\* s.lower() and s.endswith(t).
LowerCase ==
    "A" :> "a" @@ "B" :> "b" @@ "C" :> "c" @@ "D" :> "d" @@ "E" :> "e" @@ "F" :> "f"
        @@ "G" :> "g" @@ "H" :> "h" @@ "I" :> "i" @@ "J" :> "j" @@ "K" :> "k" @@ "L" :> "l"
        @@ "M" :> "m" @@ "N" :> "n" @@ "O" :> "o" @@ "P" :> "p" @@ "Q" :> "q" @@ "R" :> "r"
        @@ "S" :> "s" @@ "T" :> "t" @@ "U" :> "u" @@ "V" :> "v" @@ "W" :> "w" @@ "X" :> "x"
        @@ "Y" :> "y" @@ "Z" :> "z"
Lower(s) ==
    [i \in 1..Len(s) |-> IF s[i] \in DOMAIN LowerCase THEN LowerCase[s[i]] ELSE s[i]]
EndsWith(s, t) == Len(t) <= Len(s) /\ SubSeq(s, Len(s) - Len(t) + 1, Len(s)) = t

\* f"{n}" of a non-negative int.
RECURSIVE Decimal(_)
Decimal(n) ==
    LET d == <<"0", "1", "2", "3", "4", "5", "6", "7", "8", "9">>[(n % 10) + 1]
    IN IF n < 10 THEN <<d>> ELSE Append(Decimal(n \div 10), d)

\* _sanitize_title without the final strip of spaces and dots.
SanitizeTitle_NoFinalStrip(title) ==
    LET s0 == StrStrip(title, Whitespace)
        s1 == ReplaceEach(s0, Forbidden, " ")
        s2 == ReplaceEach(s1, {"\n", "\r"}, " ")
    IN JoinSplit(s2)

\* _sanitize_title(title); None and "" are both <<>>.
SanitizeTitle(title) ==
    LET s0 == StrStrip(title, Whitespace)
        s1 == ReplaceEach(s0, Forbidden, " ")
        s2 == ReplaceEach(s1, {"\n", "\r"}, " ")
        s3 == JoinSplit(s2)
    IN StrStrip(s3, {" ", "."})

\* _ellipsize with three dots, three characters, in place of the one
\* character "…".
Ellipsize_ThreeDots(s, maxlen) ==
    IF maxlen <= 1 \/ Len(s) <= maxlen THEN s
    ELSE LET keep == maxlen - 1
             left == (keep * 6) \div 10
             right == keep - left
         IN IF right > 0
            THEN SubSeq(s, 1, left) \o <<".", ".", ".">>
                     \o SubSeq(s, Len(s) - right + 1, Len(s))
            ELSE SubSeq(s, 1, maxlen)

\* _ellipsize(s, maxlen): int(keep * 0.6) is the floor of 6 * keep / 10.
Ellipsize(s, maxlen) ==
    IF maxlen <= 1 \/ Len(s) <= maxlen THEN s
    ELSE LET keep == maxlen - 1
             left == (keep * 6) \div 10
             right == keep - left
         IN IF right > 0
            THEN SubSeq(s, 1, left) \o <<Ellipsis>> \o SubSeq(s, Len(s) - right + 1, Len(s))
            ELSE SubSeq(s, 1, maxlen)

\* os.path.splitext(name): the extension starts at the last dot that follows a
\* character other than a dot.
SplitExt(name) ==
    LET dots == {i \in 2..Len(name) :
                    name[i] = "." /\ \E j \in 1..(i - 1) : name[j] # "."}
        at == CHOOSE i \in dots : \A j \in dots : j <= i
    IN IF dots = {} THEN [root |-> name, ext |-> <<>>]
       ELSE [root |-> SubSeq(name, 1, at - 1), ext |-> SubSeq(name, at, Len(name))]

\* len(os.path.join(folder, name)) for a non-empty folder that does not end
\* with the separator.
PathLen(folder, name) == Len(folder) + 1 + Len(name)

\* Steps 1 to 3 of _auto_rename_result without the file name as second choice:
\* an empty sanitized title goes straight to video_<id> or video_<time>.
RenameBase_NoStem(root, ext, title_hint, video_id_hint, now) ==
    LET base1 == SanitizeTitle(title_hint)
        base2 == IF EndsWith(Lower(base1), <<".">> \o ext)
                 THEN SubSeq(base1, 1, Len(base1) - (Len(ext) + 1))
                 ELSE base1
        vid == StrStrip(video_id_hint, Whitespace)
        video == <<"v", "i", "d", "e", "o", "_">>
    IN IF base2 # <<>> THEN base2
       ELSE IF vid # <<>> THEN video \o vid ELSE video \o Decimal(now)

\* Steps 1 to 3 of _auto_rename_result: the title part of the new name, from
\* the title of the metadata, else from the name (root) the file has, without
\* a duplicated extension, else video_<id> or video_<int(time.time())>.  The
\* title and the video id are <<>> for None.
RenameBase(root, ext, title_hint, video_id_hint, now) ==
    LET base1 == IF SanitizeTitle(title_hint) # <<>> THEN SanitizeTitle(title_hint)
                 ELSE SanitizeTitle(root)
        base2 == IF EndsWith(Lower(base1), <<".">> \o ext)
                 THEN SubSeq(base1, 1, Len(base1) - (Len(ext) + 1))
                 ELSE base1
        vid == StrStrip(video_id_hint, Whitespace)
        video == <<"v", "i", "d", "e", "o", "_">>
    IN IF base2 # <<>> THEN base2
       ELSE IF vid # <<>> THEN video \o vid ELSE video \o Decimal(now)

\* The name _auto_rename_result composes for the file folder/old_name, up to
\* the collision handling (steps 1 to 4).  height 0 is None and ext_from_info
\* <<>> is None; now is int(time.time()).  base0, name0 and len0 are base,
\* new_name and len(candidate) before the path length is looked at.
ComposeName(folder, old_name, v_short, a_short, height, ext_from_info, title_hint, video_id_hint, now) ==
    LET old == SplitExt(old_name)
        ext == Lower(IF ext_from_info # <<>> THEN ext_from_info
                     ELSE IF StrLStrip(old.ext, {"."}) # <<>>
                          THEN StrLStrip(old.ext, {"."})
                          ELSE <<"m", "k", "v">>)
        base0 == RenameBase(old.root, ext, title_hint, video_id_hint, now)
        h_part == IF height # 0 THEN Decimal(height) ELSE <<>>
        tags == v_short \o <<"_">> \o a_short \o <<"_">> \o h_part \o <<"_">>
        new_base0 == StrStrip(ReplaceDouble(tags \o base0), {"_"})
        name0 == new_base0 \o <<".">> \o ext
        len0 == PathLen(folder, name0)
        prefix0 == StrStrip(ReplaceDouble(tags), {"_"})
        prefix == IF prefix0 # <<>> THEN Append(prefix0, "_") ELSE prefix0
        extra == len0 - SAFE_MAX_PATH
        allowed == IF Len(base0) - extra > MIN_BASE_LEN
                   THEN Len(base0) - extra ELSE MIN_BASE_LEN
        base == IF len0 > SAFE_MAX_PATH THEN Ellipsize(base0, allowed) ELSE base0
        new_name == IF len0 > SAFE_MAX_PATH
                    THEN StrStrip(prefix \o base, {"_"}) \o <<".">> \o ext
                    ELSE name0
    IN [ext |-> ext, base0 |-> base0, name0 |-> name0, len0 |-> len0,
        prefix |-> prefix, base |-> base, new_name |-> new_name,
        len |-> PathLen(folder, new_name)]

\* n copies of the character c.
Rep(c, n) == [i \in 1..n |-> c]

\* All strings over the alphabet of at most n characters.
StringsUpTo(alphabet, n) == UNION {[1..m -> alphabet] : m \in 0..n}

\* The title 'Bad:Name/Test?'.
BadNameTest == <<"B", "a", "d", ":", "N", "a", "m", "e", "/", "T", "e", "s", "t", "?">>

\* The titles handed to _sanitize_title: every short string over a letter, the
\* space, the dot, the colon, the underscore and the newline, each forbidden
\* character and each whitespace character between two letters, and
\* 'Bad:Name/Test?'.
TitleAlphabet == {"a", " ", ".", ":", "_", "\n"}
Titles ==
    StringsUpTo(TitleAlphabet, MaxTitleLen)
        \cup {<<"a", c, "b">> : c \in Forbidden \cup Whitespace}
        \cup {<<c, "a", c, c, "b", c>> : c \in Forbidden \cup Whitespace \cup {"."}}
        \cup {BadNameTest}

\* The variables outside the file naming.
not_name_vars == <<items, allocated, queue, queue_tv, queue_running, cancel_event,
                   updating, download_thread, buttons, modal, qt, frame,
                   cancel_in_run, ui_preset, picked, preset_obj, fmt_vars, rename_vars,
                   throttle_vars>>

\* A call of _sanitize_title.
SanitizeTitleCall ==
    /\ ~sanitized.done /\ ~named.done /\ ~ellipsized.done
    /\ \E title \in Titles :
        sanitized' = [done |-> TRUE, title |-> title, out |-> SanitizeTitle(title)]
    /\ UNCHANGED <<named, ellipsized, not_name_vars>>

\* Codec tags, extension and file names as sequences of characters.
H264 == <<"h", "2", "6", "4">>
AAC == <<"a", "a", "c">>
MP4 == <<"m", "p", "4">>

\* The renames considered.  Short ones: the file the engine wrote is named
\* "o.mp4", " .mp4" or "x"; the title is missing, blank, made of forbidden
\* characters and dots, or usable; the video id is missing, blank or "x7".
\* Long ones: a folder of MinFolderLen to MaxFolderLen characters and a title
\* of 15, 25 or 60 letters, or one of 60 characters with an underscore at its
\* start, at its end, or two in its middle.
ShortTitles == {<<>>, <<" ">>, <<":", ".">>, <<"a">>, <<"a", ".", "m", "p", "4">>}
OldNames == {<<"o">> \o <<".">> \o MP4, <<" ">> \o <<".">> \o MP4, <<"x">>}
VideoIds == {<<>>, <<" ">>, <<"x", "7">>}
LongTitles ==
    {Rep("a", n) : n \in {15, 25, 60}}
        \cup {Rep("a", 30) \o <<"_", "_">> \o Rep("a", 28),
              <<"_">> \o Rep("a", 59),
              Rep("a", 59) \o <<"_">>}
RenameArgs(folder_len, old_name, height, ext_from_info, title_hint, video_id_hint) ==
    [folder |-> Rep("d", folder_len), old_name |-> old_name, v_short |-> H264,
     a_short |-> AAC, height |-> height, ext_from_info |-> ext_from_info,
     title_hint |-> title_hint, video_id_hint |-> video_id_hint, now |-> 1700]
NameInputs ==
    {RenameArgs(MinFolderLen, o, h, e, t, vid) :
        o \in OldNames, h \in {0, 1080}, e \in {<<>>, MP4},
        t \in ShortTitles, vid \in VideoIds}
    \cup {RenameArgs(n, <<"o">> \o <<".">> \o MP4, 1080, MP4, t, <<"x", "7">>) :
            n \in MinFolderLen..MaxFolderLen, t \in LongTitles}

\* os.path.exists(name) and os.path.isfile(name).
Exists(fs, name) == \E f \in fs : f.name = name

\* Step 5 of _auto_rename_result: the first name among new_name,
\* root(1).ext, root(2).ext, ... that does not exist.
UniqueCandidate(fs, new_name, ext) ==
    LET Cand(c) == IF c = 0 THEN new_name
                   ELSE SplitExt(new_name).root \o <<"(">> \o Decimal(c)
                            \o <<")", ".">> \o ext
        n == CHOOSE c \in 0..Cardinality(fs) :
                /\ ~Exists(fs, Cand(c))
                /\ \A d \in 0..(c - 1) : Exists(fs, Cand(d))
    IN Cand(n)

\* The files of a folder in which the first n of the names new_name,
\* root(1).ext, root(2).ext, ... are taken (by downloads made before).
TakenNames(new_name, ext, n) ==
    {[name |-> IF c = 0 THEN new_name
               ELSE SplitExt(new_name).root \o <<"(">> \o Decimal(c)
                        \o <<")", ".">> \o ext,
      content |-> 0] : c \in 0..(n - 1)}

\* _auto_rename_result for a file that exists: the new name is composed (steps
\* 1 to 4, res) and, unless it is the name the file has, the first free name
\* is chosen (step 5, final) in a folder where taken names are in use.
ComposeNameCall ==
    /\ ~named.done /\ ~sanitized.done /\ ~ellipsized.done
    /\ \E a \in NameInputs, taken \in 0..MaxTaken :
        \E res \in {ComposeName(a.folder, a.old_name, a.v_short, a.a_short,
                                a.height, a.ext_from_info, a.title_hint,
                                a.video_id_hint, a.now)} :
            named' = [done |-> TRUE, args |-> a, taken |-> taken, res |-> res,
                      final |-> IF res.new_name = a.old_name THEN a.old_name
                                ELSE UniqueCandidate(
                                         TakenNames(res.new_name, res.ext, taken),
                                         res.new_name, res.ext)]
    /\ UNCHANGED <<sanitized, ellipsized, not_name_vars>>

\* The strings handed to _ellipsize: the first n letters, n up to
\* MaxEllipsizeLen, so that every position of the result names the position
\* of s it was taken from.
Letters == <<"a", "b", "c", "d", "e", "f", "g", "h", "i", "j", "k", "l", "m", "n",
             "o", "p", "q", "r", "s", "t", "u", "v", "w", "x", "y", "z">>
EllipsizeInputs == {SubSeq(Letters, 1, n) : n \in 0..MaxEllipsizeLen}

\* A call of _ellipsize(s, maxlen); maxlen is MAX_UI_TITLE, MAX_QUEUE_TITLE
\* or the allowed title length of a rename in the source, here any length
\* from 0 to one more than the longest string.
EllipsizeCall ==
    /\ ~ellipsized.done /\ ~sanitized.done /\ ~named.done
    /\ \E s \in EllipsizeInputs, maxlen \in 0..(MaxEllipsizeLen + 1) :
        ellipsized' = [done |-> TRUE, s |-> s, maxlen |-> maxlen,
                       out |-> Ellipsize(s, maxlen)]
    /\ UNCHANGED <<sanitized, named, not_name_vars>>

NameNext ==
    \/ SanitizeTitleCall
    \/ ComposeNameCall
    \/ EllipsizeCall

NameSpec == Init /\ [][NameNext]_vars

\* ================================================= renaming the results
\* The output folder is one directory; a path is the name of a file in it and
\* <<>> is None.  Spec shows that a one-off download and the queue worker can
\* be in _run_single_download at the same time.
OutDir == <<"d">>

\* The titles of the downloads: "a" and "a:" are written by the engine to
\* different files and sanitize to the same title; "b" is another video.
JobTitles == {<<"a">>, <<"a", ":">>, <<"b">>}

\* The download whose file is at name.
ContentAt(fs, name) == (CHOOSE f \in fs : f.name = name).content

\* The extension of an attempt: merge_output_format of the preset (mp4) for
\* the primary attempt, "mkv" for the fallback attempt.
FinalExt(attempt) == IF attempt = "primary" THEN MP4 ELSE <<"m", "k", "v">>

\* The file the engine writes for outtmpl %(title)s.%(ext)s (the engine keeps
\* a name for every title; its own replacement of ":" is not spelled out).
EngineFile(title, attempt) == title \o <<".">> \o FinalExt(attempt)

\* The variables outside the renaming.
not_rename_vars == <<items, allocated, queue, queue_tv, queue_running, cancel_event,
                     updating, download_thread, buttons, modal, qt, frame,
                     cancel_in_run, ui_preset, picked, preset_obj, fmt_vars, name_vars,
                     throttle_vars>>

\* The end of a successful attempt: status 'Готово' or 'Готово (mkv)', return
\* "success"; result_path is what the attempt stored in queue_item.result_path.
Finish(res, f, failed) ==
    [res EXCEPT ![f.job].status = IF f.attempt = "primary" THEN Succeeded
                                  ELSE SucceededFallback,
                ![f.job].ret = "success",
                ![f.job].rename_failed = failed]

\* A worker enters a video+audio attempt of a download (the primary attempt,
\* or the fallback attempt after a failed primary one).
StartDownload(t) ==
    /\ rj[t].pc = "idle"
    /\ rename_started < MaxRenameJobs
    /\ \E title \in JobTitles, attempt \in {"primary", "fallback"} :
        rj' = [rj EXCEPT ![t] = [NoRename EXCEPT !.pc = "engine",
                                                 !.job = rename_started + 1,
                                                 !.title = title,
                                                 !.attempt = attempt]]
    /\ rename_started' = rename_started + 1
    /\ results' = Append(results, [status |-> Running, ret |-> "none",
                                   result_path |-> <<>>, rename_failed |-> FALSE])
    /\ overlapped' = (overlapped \/ \E u \in RenameThreads \ {t} : rj[u].pc # "idle")
    /\ UNCHANGED <<files, last_output_path, not_rename_vars>>

\* extract_info(download=True) returns.  With requested_downloads in the
\* result (reported) the file is in the folder and its path is stored in
\* last_output_path and, for a queue job, in queue_item.result_path; without
\* it neither is written.
EngineDone(t) ==
    /\ rj[t].pc = "engine"
    /\ \E reported \in BOOLEAN :
        LET raw == EngineFile(rj[t].title, rj[t].attempt)
        IN /\ rj' = [rj EXCEPT ![t].pc = "rename", ![t].reported = reported]
           /\ IF reported
              THEN /\ files' = IF Exists(files, raw) THEN files
                               ELSE files \cup {[name |-> raw, content |-> rj[t].job]}
                   /\ last_output_path' = raw
                   /\ results' = IF t = QueueThread
                                 THEN [results EXCEPT ![rj[t].job].result_path = raw]
                                 ELSE results
              ELSE UNCHANGED <<files, last_output_path, results>>
    /\ UNCHANGED <<rename_started, overlapped, not_rename_vars>>

\* _auto_rename_result(self.last_output_path, ...) up to the choice of the
\* free name: returns when there is no such file or the name is the same.
RenameBegin(t) ==
    /\ rj[t].pc = "rename"
    /\ \E path \in {last_output_path} :
        \E new \in {ComposeName(OutDir, path, H264, AAC, 1080, FinalExt(rj[t].attempt),
                                rj[t].title, <<"x", "7">>, 1700)} :
            IF path = <<>> \/ ~Exists(files, path) \/ new.new_name = path
            THEN /\ rj' = [rj EXCEPT ![t] = NoRename]
                 /\ results' = Finish(results, rj[t], FALSE)
            ELSE /\ rj' = [rj EXCEPT ![t].pc = "replace", ![t].path = path,
                                     ![t].target = UniqueCandidate(files, new.new_name,
                                                                   new.ext)]
                 /\ UNCHANGED results
    /\ UNCHANGED <<files, last_output_path, rename_started, overlapped, not_rename_vars>>

\* RenameReplace in which a failed rename ends the job as 'Ошибка'.
RenameReplace_FailsJob(t) ==
    /\ rj[t].pc = "replace"
    /\ \E ok \in BOOLEAN :
        IF ok /\ Exists(files, rj[t].path)
        THEN /\ files' = {f \in files : f.name \notin {rj[t].path, rj[t].target}}
                            \cup {[name |-> rj[t].target,
                                   content |-> ContentAt(files, rj[t].path)]}
             /\ last_output_path' = rj[t].target
             /\ results' = Finish(results, rj[t], FALSE)
        ELSE /\ results' = [results EXCEPT ![rj[t].job].status = Failed,
                                           ![rj[t].job].ret = "error",
                                           ![rj[t].job].rename_failed = TRUE]
             /\ UNCHANGED <<files, last_output_path>>
    /\ rj' = [rj EXCEPT ![t] = NoRename]
    /\ UNCHANGED <<rename_started, overlapped, not_rename_vars>>

\* os.replace(path, unique_candidate) and the rest of the attempt.  The call
\* replaces an existing target; it raises (ok FALSE: the file is in use, the
\* source is gone) into "except Exception", which logs.  Then the status is
\* set and "success" returned.
RenameReplace(t) ==
    /\ rj[t].pc = "replace"
    /\ \E ok \in BOOLEAN :
        IF ok /\ Exists(files, rj[t].path)
        THEN /\ files' = {f \in files : f.name \notin {rj[t].path, rj[t].target}}
                            \cup {[name |-> rj[t].target,
                                   content |-> ContentAt(files, rj[t].path)]}
             /\ last_output_path' = rj[t].target
             /\ results' = Finish(results, rj[t], FALSE)
        ELSE /\ results' = Finish(results, rj[t], TRUE)
             /\ UNCHANGED <<files, last_output_path>>
    /\ rj' = [rj EXCEPT ![t] = NoRename]
    /\ UNCHANGED <<rename_started, overlapped, not_rename_vars>>

RenameNext ==
    \/ \E t \in RenameThreads : StartDownload(t)
    \/ \E t \in RenameThreads : EngineDone(t)
    \/ \E t \in RenameThreads : RenameBegin(t)
    \/ \E t \in RenameThreads : RenameReplace(t)

RenameSpec == Init /\ [][RenameNext]_vars

\* ================================================= the detailed log
\* The variables outside the throttle.
not_throttle_vars == <<items, allocated, queue, queue_tv, queue_running, cancel_event,
                       updating, download_thread, buttons, modal, qt, frame,
                       cancel_in_run, ui_preset, picked, preset_obj, fmt_vars,
                       name_vars, rename_vars>>

\* _append_raw_throttled(msg, percent) at time now: TRUE when the line is
\* written.  It is dropped when less than 0.5 s have passed since the last
\* written line and the progress has grown by less than 0.5 since then.
Passes(now, percent, ts, last) ==
    ~((now - ts) < MinRawInterval /\ (percent - last) < MinRawPercent)

\* Entry of _run_single_download: the throttle state is reset; the primary
\* attempt follows.
ThrottleEnter ==
    /\ hook.pc = "idle"
    /\ throttle_jobs < MaxThrottleJobs
    /\ throttle_jobs' = throttle_jobs + 1
    /\ last_raw_line_ts' = 0
    /\ last_raw_percent' = -PercentUnit
    /\ hook' = [pc |-> "primary", n |-> 0]
    /\ events' = <<>>
    /\ UNCHANGED <<clock, not_throttle_vars>>

\* A quarter of a second passes.
Tick ==
    /\ clock < MaxClock
    /\ clock' = clock + 1
    /\ UNCHANGED <<last_raw_line_ts, last_raw_percent, hook, events, throttle_jobs,
                   not_throttle_vars>>

\* The hook is called with status "downloading" and some progress (which may
\* be lower than before: a second stream, a corrected size estimate).
HookDownloading ==
    /\ hook.pc \in {"primary", "fallback"}
    /\ Len(events) < MaxEvents
    /\ \E percent \in 0..MaxPercent :
        LET written == Passes(clock, percent, last_raw_line_ts, last_raw_percent)
        IN /\ events' = Append(events, [status |-> "downloading", attempt |-> hook.pc,
                                        first |-> hook.n = 0, ts |-> clock,
                                        percent |-> percent, written |-> written])
           /\ last_raw_line_ts' = IF written THEN clock ELSE last_raw_line_ts
           /\ last_raw_percent' = IF written THEN percent ELSE last_raw_percent
    /\ hook' = [hook EXCEPT !.n = 1]
    /\ UNCHANGED <<clock, throttle_jobs, not_throttle_vars>>

\* The hook is called with status "finished": _append_raw, no throttle.
HookFinished ==
    /\ hook.pc \in {"primary", "fallback"}
    /\ Len(events) < MaxEvents
    /\ events' = Append(events, [status |-> "finished", attempt |-> hook.pc,
                                 first |-> hook.n = 0, ts |-> clock,
                                 percent |-> 100 * PercentUnit, written |-> TRUE])
    /\ hook' = [hook EXCEPT !.n = 1]
    /\ UNCHANGED <<clock, last_raw_line_ts, last_raw_percent, throttle_jobs,
                   not_throttle_vars>>

\* The primary attempt raises: the fallback attempt starts with a new
\* YoutubeDL object and the same hook; the throttle state is left as it is.
ThrottleFallback ==
    /\ hook.pc = "primary"
    /\ hook' = [pc |-> "fallback", n |-> 0]
    /\ UNCHANGED <<clock, last_raw_line_ts, last_raw_percent, events, throttle_jobs,
                   not_throttle_vars>>

\* _run_single_download returns.
ThrottleReturn ==
    /\ hook.pc \in {"primary", "fallback"}
    /\ hook' = [pc |-> "idle", n |-> 0]
    /\ UNCHANGED <<clock, last_raw_line_ts, last_raw_percent, events, throttle_jobs,
                   not_throttle_vars>>

ThrottleNext ==
    \/ ThrottleEnter
    \/ Tick
    \/ HookDownloading
    \/ HookFinished
    \/ ThrottleFallback
    \/ ThrottleReturn

ThrottleSpec == Init /\ [][ThrottleNext]_vars

\* ------------------------------------------------------- the specification
Next ==
    \/ OnUiSettingsChanged
    \/ OnDownloadClicked
    \/ OnCancelClicked
    \/ OnAddToQueue
    \/ OnLoadTxtToQueue
    \/ OnStartQueue
    \/ OnClearQueue
    \/ OnUpdateYtDlp
    \/ DismissMessageBox
    \/ OnQueueDeleteSelected
    \/ OnQueueEditSelected
    \/ OnQueueDoubleClick
    \/ EditOnOk
    \/ EditCancel
    \/ ProbeTitleAsync
    \/ \E t \in Threads : Probe(t)
    \/ \E t \in Threads : ProgressHook(t)
    \/ \E t \in Threads : PrimarySuccess(t)
    \/ \E t \in Threads : PrimaryError(t)
    \/ \E t \in Threads : FallbackSuccess(t)
    \/ \E t \in Threads : FallbackError(t)
    \/ \E t \in Threads : AudioSuccess(t)
    \/ \E t \in Threads : AudioError(t)
    \/ \E t \in Threads : DownloadThreadExit(t)
    \/ UpdateYtDlpWorker
    \/ RunQueueBegin
    \/ RunQueueNext
    \/ RunQueueAfter
    \/ RunQueueFinally

Spec == Init /\ [][Next]_vars

\* A step of the queue worker: _run_queue and the download it is inside.
QueueWorkerStep ==
    \/ RunQueueBegin
    \/ RunQueueNext
    \/ Probe(QueueThread)
    \/ ProgressHook(QueueThread)
    \/ PrimarySuccess(QueueThread)
    \/ PrimaryError(QueueThread)
    \/ FallbackSuccess(QueueThread)
    \/ FallbackError(QueueThread)
    \/ AudioSuccess(QueueThread)
    \/ AudioError(QueueThread)
    \/ RunQueueAfter
    \/ RunQueueFinally

\* The scheduling of the queue worker: every engine call returns and the
\* thread is scheduled again and again, so a worker that can take a step
\* infinitely often takes one.  A message box holds no worker up in the
\* program; here its closing comes before the next worker step, so an open
\* box is closed.
Fairness ==
    /\ SF_vars(QueueWorkerStep)
    /\ WF_vars(DismissMessageBox)

\* The queue run and what goes on beside it: jobs are added, loaded and
\* deleted, the queue is cleared and started, one-off downloads are started,
\* cancel is requested, the settings widgets change, message boxes are
\* closed.  Left out are the steps that write only what the queue worker never
\* reads or what is fixed before a run starts: the engine update (updating,
\* the buttons), the edit dialog (closed before Start-queue can be clicked)
\* and the asynchronous title probe.
QueueRunNext ==
    \/ OnUiSettingsChanged
    \/ OnDownloadClicked
    \/ OnCancelClicked
    \/ OnAddToQueue
    \/ OnLoadTxtToQueue
    \/ OnStartQueue
    \/ OnClearQueue
    \/ DismissMessageBox
    \/ OnQueueDeleteSelected
    \/ \E t \in Threads : Probe(t)
    \/ \E t \in Threads : ProgressHook(t)
    \/ \E t \in Threads : PrimarySuccess(t)
    \/ \E t \in Threads : PrimaryError(t)
    \/ \E t \in Threads : FallbackSuccess(t)
    \/ \E t \in Threads : FallbackError(t)
    \/ \E t \in Threads : AudioSuccess(t)
    \/ \E t \in Threads : AudioError(t)
    \/ \E t \in Threads : DownloadThreadExit(t)
    \/ RunQueueBegin
    \/ RunQueueNext
    \/ RunQueueAfter
    \/ RunQueueFinally

\* The queue run with a queue worker that keeps running.
LiveSpec == Init /\ [][QueueRunNext]_vars /\ Fairness

\* ================================================================ claims
\* The queue positions whose job is 'В процессе'.
RunningPositions == {k \in 1..Len(queue) : items[queue[k]].status = Running}

\* Thread t leaves its attempt at pc in this step without an engine result:
\* the attempt failed (an Exception or the hook's KeyboardInterrupt).
AttemptFails(t, pc) ==
    /\ frame[t].pc = pc
    /\ frame'[t].pc # pc
    /\ frame'[t].ret # "success"

\* C1: in every reachable state at most one job of the queue has status
\* Running.
C1_SingleFlight == Cardinality(RunningPositions) <= 1

\* C1 witness: the second job of a run is Running while the first one, which
\* did not succeed, is still in the queue.
C1_Witness ==
    /\ qt.pc = "job" /\ qt.k = 2 /\ Len(queue) = 2
    /\ items[queue[1]].status \in {Failed, Canceled}
    /\ items[queue[2]].status = Running

\* C2 (as claimed): at most one engine download is in flight: one-off downloads
\* and the queue run never overlap.
C2_OneDownloadInFlight ==
    Cardinality({t \in OneOffThreads : OneOffAlive(t)})
        + (IF QueueThreadAlive THEN 1 ELSE 0) <= 1

\* C3 (as claimed): a job that leaves Running while the cancel flag is set ends
\* Canceled.
C3_CancelMeansCanceled ==
    [][\A id \in Ids :
          (/\ items[id].status = Running
           /\ cancel_event
           /\ items'[id].status \in Terminal)
          => items'[id].status = Canceled]_vars

\* C4 (as claimed): once a cancel request has set the flag during a queue run,
\* no job becomes Running for the rest of that run.
C4_NoJobStartsAfterCancel ==
    [][cancel_in_run =>
          \A id \in Ids : items'[id].status = Running => items[id].status = Running]_vars

\* C5 (as claimed): every job whose first attempt fails while the cancel flag
\* is unset gets one fallback attempt with container mkv.
C5_EveryJobFallsBack ==
    [][\A t \in Threads :
          ((AttemptFails(t, "primary") \/ AttemptFails(t, "audio")) /\ ~cancel_event)
          => (/\ frame'[t].pc = "fallback"
              /\ frame'[t].container = "mkv"
              /\ frame'[t].fallbacks = 1)]_vars

\* C5 (amended): every video+audio job whose primary attempt fails while the
\* cancel flag is unset gets exactly one fallback attempt with container mkv,
\* and a fallback attempt that completes ends the job SucceededFallback; an
\* audio-only job gets no fallback, its failed attempt ends the job Failed.
C5_VideoJobFallsBackOnce ==
    [][\A t \in Threads :
          /\ (AttemptFails(t, "primary") /\ ~cancel_event)
             => (/\ frame'[t].pc = "fallback"
                 /\ frame'[t].container = "mkv"
                 /\ frame[t].fallbacks = 0
                 /\ frame'[t].fallbacks = 1)
          /\ frame'[t].pc = "fallback" => frame[t].pc \in {"primary", "fallback"}
          /\ frame[t].pc = "fallback" => frame'[t].pc \in {"fallback", "ret"}
          /\ (frame[t].pc = "fallback" /\ frame'[t].ret = "success" /\ frame[t].item # 0)
             => items'[frame[t].item].status = SucceededFallback
          /\ (AttemptFails(t, "audio") /\ ~cancel_event)
             => (/\ frame'[t].pc = "ret"
                 /\ frame'[t].ret = "error"
                 /\ frame[t].item # 0 => items'[frame[t].item].status = Failed)]_vars

\* C5 witness: a queue job has returned "success" from its fallback attempt.
C5_Witness ==
    /\ frame[QueueThread].pc = "ret"
    /\ frame[QueueThread].ret = "success"
    /\ items[frame[QueueThread].item].status = SucceededFallback

\* C6 (as claimed): a first attempt that fails while the cancel flag is set
\* starts no fallback: the job is marked Canceled and the download returns
\* "cancel".
C6_CanceledPrimaryNeverFallsBack ==
    [][\A t \in Threads :
          ((AttemptFails(t, "primary") \/ AttemptFails(t, "audio")) /\ cancel_event)
          => (/\ frame'[t].pc = "ret"
              /\ frame'[t].ret = "cancel"
              /\ frame[t].item # 0 => items'[frame[t].item].status = Canceled)]_vars

\* C7 (as claimed): an attempt that fails while the cancel flag is set marks
\* the job Canceled, and a job becomes Failed only with the flag unset.
C7_FailedOnlyWhenNotCanceled ==
    [][\A t \in Threads :
          /\ ((\E pc \in {"primary", "fallback", "audio"} : AttemptFails(t, pc))
              /\ cancel_event /\ frame[t].item # 0)
             => items'[frame[t].item].status = Canceled
          /\ (/\ frame[t].item # 0
              /\ items[frame[t].item].status # Failed
              /\ items'[frame[t].item].status = Failed)
             => ~cancel_event]_vars

\* C8 (as claimed): no job is appended to the queue between the start and the
\* end of a run.
C8_NoAddDuringRun ==
    [][(queue_running /\ queue_running') => SeqIds(queue') \subseteq SeqIds(queue)]_vars

\* C9: while queue_running, a clear, delete or edit request (menu entry,
\* double click, the dialog's OK) leaves the queue's jobs, their order, their
\* statuses and their presets unchanged.
C9_MutationRejectedWhileRunning ==
    [][(queue_running /\ (\/ OnClearQueue \/ OnQueueDeleteSelected
                          \/ OnQueueEditSelected \/ OnQueueDoubleClick \/ EditOnOk))
          => UNCHANGED <<queue, queue_tv, items>>]_vars

\* C9 witness: a clear request was refused during a run with jobs in the queue.
C9_Witness ==
    /\ queue_running
    /\ modal = MessageBox("cannot_clear")
    /\ queue # <<>>

\* C10: when the queue worker comes back from a job, a Succeeded or
\* SucceededFallback job is removed and the queue is one shorter, a Failed or
\* Canceled job stays and the queue is unchanged; and during a run a job leaves
\* the queue in no other step.
C10_RemovedOnlyOnSuccess ==
    [][/\ (qt.pc = "job" /\ qt'.pc # "job")
          => LET id == frame[QueueThread].item
             IN  /\ items[id].status \in Terminal
                 /\ items[id].status \in {Succeeded, SucceededFallback}
                    => (/\ Len(queue') = Len(queue) - 1
                        /\ SeqIds(queue') = SeqIds(queue) \ {id}
                        /\ id \in SeqIds(queue))
                 /\ items[id].status \in {Failed, Canceled} => queue' = queue
       /\ (queue_running /\ ~(SeqIds(queue) \subseteq SeqIds(queue')))
          => (qt.pc = "job" /\ qt'.pc # "job")]_vars

\* C10 witness: the first of two jobs of a run succeeded and has been removed,
\* the second one is now Running.
C10_Witness ==
    /\ qt.pc = "job" /\ qt.k = 2 /\ Len(qt.snap) = 2
    /\ queue = <<qt.snap[2]>>
    /\ items[qt.snap[2]].status = Running

\* The position of job id in queue q.
Pos(q, id) == CHOOSE k \in 1..Len(q) : q[k] = id

\* C11: when the queue worker comes back from a job that ended Failed and the
\* cancel flag is unset, it stays in the loop and goes on to the next job; and
\* at the loop head, with the flag unset and a job left, that job becomes
\* Running: it is the job right after the previous one in the queue.
C11_FailedJobDoesNotStopRun ==
    [][/\ (/\ qt.pc = "job" /\ qt'.pc # "job"
           /\ items[frame[QueueThread].item].status = Failed
           /\ ~cancel_event)
          => (qt'.pc = "loop" /\ qt'.k = qt.k + 1 /\ queue_running')
       /\ (qt.pc = "loop" /\ qt'.pc # "loop" /\ ~cancel_event /\ qt.k <= Len(qt.snap))
          => (/\ qt'.pc = "job"
              /\ items'[qt.snap[qt.k]].status = Running
              /\ qt.snap[qt.k] \in SeqIds(queue)
              /\ (qt.k > 1 /\ qt.snap[qt.k - 1] \in SeqIds(queue))
                 => Pos(queue, qt.snap[qt.k]) = Pos(queue, qt.snap[qt.k - 1]) + 1)]_vars

\* C11 witness: the first job of the run ended Failed, no cancel was requested,
\* and the second job has been picked and is Running.
C11_Witness ==
    /\ Len(picked) = 2
    /\ ~cancel_in_run /\ ~cancel_event
    /\ items[picked[1]].status = Failed
    /\ items[picked[2]].status = Running
    /\ queue = picked

\* C12: the jobs a queue run has picked so far are picked in insertion order
\* (QueueItems are numbered as they are created), none of them twice, and every
\* job that stands before a picked job in the queue was picked before it.
C12_PickedInQueueOrder ==
    /\ \A i, j \in 1..Len(picked) : i < j => picked[i] < picked[j]
    /\ \A j \in 1..Len(picked) :
          picked[j] \in SeqIds(queue)
          => \A p \in 1..(Pos(queue, picked[j]) - 1) :
                \E i \in 1..(j - 1) : picked[i] = queue[p]
    /\ \A j \in 1..Len(picked) : picked[j] = qt.snap[j]

\* C12 witness: a run has picked two jobs; the first one is still in the queue.
C12_Witness ==
    /\ Len(picked) = 2
    /\ Len(queue) = 2
    /\ picked[1] = queue[1]
    /\ items[picked[1]].status = Canceled

\* C13 (as claimed): a job becomes Running only from Queued, and a job whose
\* status is Succeeded, SucceededFallback, Canceled or Failed keeps it.
C13_TerminalIsFinal ==
    [][\A id \in Ids :
          items'[id] # NoItem
          => /\ (items'[id].status = Running /\ items[id].status # Running)
                => items[id].status = Queued
             /\ items[id].status \in Terminal
                => items'[id].status = items[id].status]_vars

\* C14: the preset of a job changes in one step only: the OK of the edit
\* dialog opened for that very job.  No other handler, no change of the
\* settings widgets and no edit of another job changes it, whether or not the
\* two jobs were enqueued from one file with one preset object.
C14_PresetFixedAtEnqueue ==
    [][\A id \in Ids :
          (/\ items[id] # NoItem
           /\ items'[id] # NoItem
           /\ items'[id].preset # items[id].preset)
          => (modal = EditDialog(id) /\ modal' = NoModal)]_vars

\* C14 witness: two jobs enqueued from one file share their preset object, the
\* settings widgets have been changed since (the jobs kept their preset), and
\* the edit dialog of the first job is open.
C14_Witness ==
    /\ modal = EditDialog(1)
    /\ Len(queue) = 2
    /\ preset_obj[1] = 1 /\ preset_obj[2] = 1
    /\ items[1].preset = items[2].preset
    /\ ui_preset # items[2].preset

\* C15 (as claimed): the options of the fallback attempt do not ask the engine
\* to continue partial files.
C15_FallbackRestartsFromScratch ==
    \A t \in Threads : frame[t].pc = "fallback" => ~frame[t].continuedl

\* Filter f (a sequence of pieces) holds one of the codec tags.
Requests(f, tags) == \E k \in 1..Len(f) : f[k] \in tags

\* C16: every resolution for container mp4 has effective codecs h264 and aac;
\* its video filter asks for avc1 and for neither av01 nor vp9, its audio
\* filter asks for mp4a and for neither opus nor vorbis.
C16_Mp4NeverRequestsWebmCodecs ==
    \A k \in 1..Len(resolved) :
        LET r == resolved[k].call
        IN  r.container_choice = "mp4"
            => /\ r.eff_v = "h264" /\ r.eff_a = "aac"
               /\ ~Requests(r.fmt.vfilter, {"[vcodec^=av01]", "[vcodec=vp9]"})
               /\ ~Requests(r.fmt.afilter, {"[acodec=opus]", "[acodec=vorbis]"})
               /\ Requests(r.fmt.vfilter, {"[vcodec^=avc1]"})
               /\ Requests(r.fmt.afilter, {"[acodec^=mp4a]"})

\* C16 witness: a preset asking for AV1 and Opus in mp4 has been resolved.
C16_Witness ==
    \E k \in 1..Len(resolved) :
        /\ resolved[k].call.container_choice = "mp4"
        /\ resolved[k].call.vch = "av1"
        /\ resolved[k].call.ach = "opus"

\* C17: no resolution for container webm has effective video codec h264 or
\* effective audio codec aac, and its filters ask for neither avc1 nor mp4a.
C17_WebmNeverRequestsMp4Codecs ==
    \A k \in 1..Len(resolved) :
        LET r == resolved[k].call
        IN  r.container_choice = "webm"
            => /\ r.eff_v # "h264" /\ r.eff_a # "aac"
               /\ ~Requests(r.fmt.vfilter, {"[vcodec^=avc1]"})
               /\ ~Requests(r.fmt.afilter, {"[acodec^=mp4a]"})

\* C17 witness: a preset asking for H.264 and AAC in webm has been resolved.
C17_Witness ==
    \E k \in 1..Len(resolved) :
        /\ resolved[k].call.container_choice = "webm"
        /\ resolved[k].call.vch = "h264"
        /\ resolved[k].call.ach = "aac"

\* C18 (as claimed): video auto, audio auto and container mp4 resolve to
\* h264 + aac with a warning of two sentences, one for the video and one for
\* the audio correction.
C18_AutoMp4WarnsTwice ==
    \A k \in 1..Len(resolved) :
        LET r == resolved[k].call
        IN  (r.container_choice = "mp4" /\ r.vch = "auto" /\ r.ach = "auto")
            => /\ r.eff_v = "h264" /\ r.eff_a = "aac"
               /\ r.warn = <<WarnMp4Video, WarnMp4Audio>>

\* C18 (amended): video auto, audio auto and container mp4 resolve to
\* h264 + aac with no warning; for mp4 the warning has the video sentence
\* exactly when the preference was av1 or vp9 and the audio sentence exactly
\* when it was opus or vorbis, so the combined warning needs both.
C18_AutoMp4ForcedSilently ==
    \A k \in 1..Len(resolved) :
        LET r == resolved[k].call
        IN  r.container_choice = "mp4"
            => /\ r.eff_v = "h264" /\ r.eff_a = "aac"
               /\ (r.vch = "auto" /\ r.ach = "auto") => r.warn = NoWarn
               /\ Requests(r.warn, {WarnMp4Video}) <=> r.vch \in {"av1", "vp9"}
               /\ Requests(r.warn, {WarnMp4Audio}) <=> r.ach \in {"opus", "vorbis"}
               /\ r.warn = <<WarnMp4Video, WarnMp4Audio>>
                  <=> (r.vch \in {"av1", "vp9"} /\ r.ach \in {"opus", "vorbis"})

\* C18 witness: a preset with both codecs 'Авто' and container mp4 has been
\* resolved.
C18_Witness ==
    \E k \in 1..Len(resolved) :
        /\ resolved[k].call.preset.container_choice = "mp4"
        /\ resolved[k].call.preset.vcodec_choice = "Auto"
        /\ resolved[k].call.preset.acodec_choice = "Auto"
        /\ resolved[k].call.eff_v = "h264"

\* C19: every resolution for container mkv or auto returns the two codec
\* preferences as they came and no warning.
C19_MkvAutoUnchanged ==
    \A k \in 1..Len(resolved) :
        LET r == resolved[k].call
        IN  r.container_choice \in {"mkv", "auto"}
            => /\ r.eff_v = r.vch
               /\ r.eff_a = r.ach
               /\ r.warn = NoWarn

\* C19 witness: resolutions for mkv with preferences that mp4 and webm would
\* both correct (vp9 with aac).
C19_Witness ==
    \E k \in 1..Len(resolved) :
        /\ resolved[k].call.container_choice = "mkv"
        /\ resolved[k].call.vch = "vp9"
        /\ resolved[k].call.ach = "aac"

C29_CancelFlagKeptWhileWorkerRuns ==
    [][(/\ cancel_event
        /\ \/ \E t \in OneOffThreads : OneOffAlive(t) /\ OneOffAlive(t)'
           \/ QueueThreadAlive /\ QueueThreadAlive')
       => cancel_event']_vars

\* C26: the probe, failed or not, is followed by the primary attempt with the
\* preset and the options the activation had before the probe, and leaves the
\* status of the job as it was: the probe itself never ends the job.
C26_ProbeFailureIsNotFatal ==
    [][\A t \in Threads :
          (frame[t].pc = "probe" /\ frame'[t] # frame[t])
          => /\ frame'[t] = [frame[t] EXCEPT !.pc = "primary"]
             /\ frame[t].item # 0 =>
                    items'[frame[t].item].status = items[frame[t].item].status]_vars

\* A queue job in its primary attempt that still has no title: its probe has
\* failed (a successful probe fills an empty title), and the job is running.
C26_Witness ==
    /\ frame[QueueThread].pc = "primary"
    /\ frame[QueueThread].item # 0
    /\ items[frame[QueueThread].item].title = None
    /\ items[frame[QueueThread].item].status = Running

\* C25: the sanitized title contains no forbidden character, no newline or
\* carriage return and no run of two spaces, and neither starts nor ends with
\* a space or a dot; 'Bad:Name/Test?' becomes 'Bad Name Test'.
C25_SanitizedTitleIsClean ==
    sanitized.done =>
        LET out == sanitized.out
        IN /\ \A i \in 1..Len(out) : out[i] \notin Forbidden \cup {"\n", "\r"}
           /\ \A i \in 1..(Len(out) - 1) : ~(out[i] = " " /\ out[i + 1] = " ")
           /\ out # <<>> => out[1] \notin {" ", "."} /\ out[Len(out)] \notin {" ", "."}
           /\ sanitized.title = BadNameTest =>
                  out = <<"B", "a", "d", " ", "N", "a", "m", "e", " ", "T", "e", "s", "t">>

\* A title that starts with a dot or a space and has a forbidden character and
\* a letter has been sanitized.
C25_Witness ==
    /\ sanitized.done
    /\ sanitized.title # <<>>
    /\ sanitized.title[1] \in {" ", "."}
    /\ \E i \in 1..Len(sanitized.title) : sanitized.title[i] \in Forbidden
    /\ sanitized.out # <<>>

\* The length of the part of a composed name between the tags and the
\* extension.
TitlePartLen(name, res) == Len(name) - Len(res.prefix) - 1 - Len(res.ext)

\* C21 (as claimed): when the candidate path is k characters longer than
\* SAFE_MAX_PATH, the title part of the final name is k characters shorter than
\* that of the candidate, but not shorter than MIN_BASE_LEN (a title part that
\* is that short already keeps its length); tags, height and extension stay;
\* a candidate of length 260 loses exactly 20 characters of title.
C21_TitleShortenedByExcess ==
    (named.done /\ named.res.len0 > SAFE_MAX_PATH) =>
        LET res == named.res
            k == res.len0 - SAFE_MAX_PATH
            t0 == TitlePartLen(res.name0, res)
            t1 == TitlePartLen(res.new_name, res)
        IN /\ t1 = IF t0 <= MIN_BASE_LEN THEN t0
                   ELSE IF t0 - k > MIN_BASE_LEN THEN t0 - k ELSE MIN_BASE_LEN
           /\ SubSeq(res.new_name, 1, Len(res.prefix)) = res.prefix
           /\ SubSeq(res.name0, 1, Len(res.prefix)) = res.prefix
           /\ EndsWith(res.new_name, <<".">> \o res.ext)
           /\ (res.len0 = 260 /\ t0 >= MIN_BASE_LEN + 20) => t1 = t0 - 20

Renames(t) == rj[t].pc = "replace" /\ rj'[t].pc = "idle" /\ files' # files

\* C22 (as claimed): a rename never replaces an existing file other than its
\* source: the name it moves the file to is free when the file is moved.
C22_RenameNeverOverwrites ==
    [][\A t \in RenameThreads :
          Renames(t) => ~Exists(files, rj[t].target)]_vars

\* C23: a rename that fails changes no file and not the recorded result path;
\* the job ends 'Готово' (after the primary attempt) or 'Готово (mkv)' (after
\* the fallback attempt) with return value "success", on which the queue
\* worker removes it; the result path of a queue job whose file the engine
\* reported is the path the engine wrote.
C23_RenameFailureKeepsSuccess ==
    [][\A t \in RenameThreads :
          (rj[t].pc = "replace" /\ rj'[t].pc = "idle"
               /\ results'[rj[t].job].rename_failed)
          => /\ files' = files
             /\ results'[rj[t].job].status =
                    (IF rj[t].attempt = "primary" THEN Succeeded ELSE SucceededFallback)
             /\ results'[rj[t].job].ret = "success"
             /\ results'[rj[t].job].result_path = results[rj[t].job].result_path
             /\ (t = QueueThread /\ rj[t].reported) =>
                    results'[rj[t].job].result_path
                        = EngineFile(rj[t].title, rj[t].attempt)]_vars

\* The rename of a queue job has failed: the job is 'Готово', the file the
\* engine wrote is at the recorded result path and has not been given its
\* tagged name.
C23_Witness ==
    \E j \in 1..Len(results) :
        /\ results[j].rename_failed
        /\ results[j].status = Succeeded
        /\ results[j].ret = "success"
        /\ results[j].result_path = <<"a", ".", "m", "p", "4">>
        /\ Exists(files, results[j].result_path)
        /\ ContentAt(files, results[j].result_path) = j
        /\ ~overlapped

\* C30 (as claimed): as long as downloads do not overlap, a rename moves only
\* the file its own download has written, and none when the engine's result
\* carried no output path.
C30_RenamesOnlyOwnArtifact ==
    [][\A t \in RenameThreads :
          (Renames(t) /\ ~overlapped)
          => /\ rj[t].reported
             /\ ContentAt(files, rj[t].path) = rj[t].job]_vars

\* The written "downloading" lines of the download, in order.
ThrottledLines == SelectSeq(events, LAMBDA e : e.status = "downloading" /\ e.written)

\* C27 (as claimed): two consecutive written "downloading" lines of a download
\* are at least 0.5 s apart and at least 0.5 percentage points apart.
C27_EmissionsPassBothThresholds ==
    \A i \in 1..(Len(ThrottledLines) - 1) :
        /\ ThrottledLines[i + 1].ts - ThrottledLines[i].ts >= MinRawInterval
        /\ ThrottledLines[i + 1].percent - ThrottledLines[i].percent >= MinRawPercent

\* C28 (as claimed): the first progress event of every attempt, primary or
\* fallback, and every "finished" event is written to the detailed log.
C28_FirstAndFinishedAlwaysWritten ==
    \A i \in 1..Len(events) :
        (events[i].first \/ events[i].status = "finished") => events[i].written

\* C31 (as claimed): the rows of the queue view and the jobs of the queue are
\* the same QueueItems in the same order, whatever was added, deleted, cleared
\* or run before.
C31_RowsMatchJobs == queue_tv = queue

C33_UpdateNeverOverlapsDownload ==
    ~(updating /\ (queue_running \/ \E t \in OneOffThreads : OneOffAlive(t)))

\* C34: every queue run that has been started ends: queue_running becomes
\* false again and the buttons are enabled (Cancel disabled), whether its jobs
\* succeed, fail or are canceled.
C34_QueueRunTerminates ==
    queue_running ~> (~queue_running /\ buttons = ToggleControls(FALSE, TRUE))

\* C34 witness: a run of two jobs has ended, the first job Failed and the
\* second Canceled, both still in the queue; the buttons are enabled again.
C34_Witness ==
    /\ ~queue_running
    /\ ~QueueThreadAlive
    /\ Len(queue) = 2
    /\ items[queue[1]].status = Failed
    /\ items[queue[2]].status = Canceled
    /\ buttons = ToggleControls(FALSE, TRUE)

\* C35: while queue_running is false no job of the queue has status Running;
\* and the job the queue worker comes back from has left Running for
\* Succeeded, SucceededFallback, Canceled or Failed.
C35_NoRunningJobOutsideRun ==
    /\ ~queue_running => RunningPositions = {}
    /\ (qt.pc = "job" /\ frame[QueueThread].pc = "ret")
       => items[frame[QueueThread].item].status \in Terminal

\* C35 witness: a run has ended and has left jobs in the queue, none of them
\* Running: one Canceled job and one the run never picked.
C35_Witness ==
    /\ ~queue_running
    /\ Len(queue) = 2
    /\ items[queue[1]].status = Canceled
    /\ items[queue[2]].status = Queued

\* C36 (as claimed): when the title is long enough to take the excess of the
\* candidate path over SAFE_MAX_PATH (its length less the excess is at least
\* MIN_BASE_LEN), the path the file is renamed to, collision suffix included,
\* is at most SAFE_MAX_PATH characters long.
C36_FinalPathWithinSafeMax ==
    (/\ named.done
     /\ Len(named.res.base0)
            - (IF named.res.len0 > SAFE_MAX_PATH THEN named.res.len0 - SAFE_MAX_PATH
               ELSE 0) >= MIN_BASE_LEN)
    => PathLen(named.args.folder, named.final) <= SAFE_MAX_PATH

\* The language filters among the pieces of selector f.
LanguageFiltersOf(f) ==
    {f[k] : k \in 1..Len(f)} \cap {LanguageFilter(l) : l \in AlangChoices}

\* C37 (as claimed): for an audio language other than "orig" the video+audio
\* selector filters the audio stream by that language prefix, as the
\* audio-only selector of the same settings does; for "orig" neither has a
\* language filter.
C37_LanguageFilterForEveryChoice ==
    \A k \in 1..Len(resolved) :
        LET lang == resolved[k].call.preset.alang_choice
            afilter == resolved[k].call.fmt.afilter
        IN  /\ LanguageFiltersOf(afilter) = LanguageFiltersOf(resolved[k].audio)
            /\ LanguageFiltersOf(afilter) =
                   (IF lang = "orig" THEN {} ELSE {LanguageFilter(lang)})

\* C38: for maxlen > 1 the result of _ellipsize(s, maxlen) is as long as the
\* shorter of len(s) and maxlen; a string longer than maxlen becomes its first
\* floor(0.6 * (maxlen - 1)) characters, one ellipsis character and its last
\* maxlen - 1 - floor(0.6 * (maxlen - 1)) characters; a string that is not
\* longer is returned as it is.
C38_EllipsizeKeepsBothEnds ==
    (ellipsized.done /\ ellipsized.maxlen > 1) =>
        LET s == ellipsized.s
            maxlen == ellipsized.maxlen
            out == ellipsized.out
            head == (6 * (maxlen - 1)) \div 10
            tail == maxlen - 1 - head
        IN /\ Len(out) = IF Len(s) < maxlen THEN Len(s) ELSE maxlen
           /\ Len(s) <= maxlen => out = s
           /\ Len(s) > maxlen =>
                 /\ \A i \in 1..head : out[i] = s[i]
                 /\ out[head + 1] = Ellipsis
                 /\ \A i \in 1..tail : out[head + 1 + i] = s[Len(s) - tail + i]
                 /\ \A i \in 1..Len(out) : i # head + 1 => out[i] # Ellipsis

\* C38 witness: a string of 12 characters has been cut to 6: three from its
\* start, the ellipsis, two from its end.
C38_Witness ==
    /\ ellipsized.done
    /\ Len(ellipsized.s) = 12
    /\ ellipsized.maxlen = 6
    /\ ellipsized.out = <<"a", "b", "c", Ellipsis, "k", "l">>

\* C39: the cancel flag goes up only in a step taken while a download thread
\* or the queue worker is alive; the step that starts a one-off download or
\* the queue worker leaves the flag down; and a flag that is up during a queue
\* run was put up by a request made during that run.
C39_CancelRequestsBeforeStartAreDropped ==
    /\ [](queue_running /\ cancel_event => cancel_in_run)
    /\ [][/\ (~cancel_event /\ cancel_event')
              => (OnCancelClicked /\ (DownloadThreadAlive \/ QueueThreadAlive))
          /\ \A t \in OneOffThreads :
                (~OneOffAlive(t) /\ OneOffAlive(t)') => ~cancel_event'
          /\ (~QueueThreadAlive /\ QueueThreadAlive') => ~cancel_event'
          /\ \A t \in OneOffThreads :
                (cancel_event' /\ OneOffAlive(t)')
                => (OneOffAlive(t) /\ (cancel_event \/ OnCancelClicked))]_vars

\* C39 witness: cancel was requested during the queue run that is still going
\* on, and a one-off download started after the request runs with the flag
\* down.
C39_Witness ==
    /\ queue_running /\ cancel_in_run
    /\ DownloadThreadAlive
    /\ ~cancel_event

====
